---- MODULE Spec2Model ----
(***************************************************************************)
(* Purchase-planning dashboard (test-syncVentas): the ERP client's token   *)
(* cache, the sales extractor and aggregator, the monthly sync engine, the *)
(* rotation engine and the dashboard aggregation, as state machines.       *)
(*                                                                         *)
(* The module holds several specifications over one set of variables; each *)
(* specification drives one group of variables and leaves the others at    *)
(* their idle values:                                                      *)
(*   SpecAuth     the token cache of utils/auth (both variants)            *)
(*   SpecExtract  the line-item extractors, as pure functions              *)
(*   SpecStock    the warehouse filter and stock extraction                *)
(*   SpecRot      rotation and retention pruning over the database         *)
(*   SpecSync     single-day, full-month and current-month sync            *)
(*   SpecDash     the dashboard row computation                            *)
(***************************************************************************)
EXTENDS Integers, Sequences, FiniteSets, TLC

VARIABLES
    \* ---- utils/auth module state and its callers
    authVariant,          \* which auth module is loaded: "locked" | "plain"
    authToken,            \* cached token, 0 = null
    tokenExpirationTime,  \* expiry of the cached token, 0 = null
    authPromise,          \* the lock: 0 = null, else the caller whose POST is awaited
    clock,                \* Date.now(), in hours
    pc,                   \* per caller: "idle" | "awaitPost" | "awaitLock" | "done" | "failed"
    joined,               \* per caller: the POST (by sequence number) its call waits on, 0 = none
    result,               \* per caller: the token it received, 0 = none
    posts,                \* number of authentication POSTs issued so far
    inflightAtCall,       \* per caller: was an authentication in flight when it called
    \* ---- pure-function specifications: input and output of the last application
    fnIn,
    fnOut,
    \* ---- database and ERP, for rotation, sync and dashboard
    hoy,                  \* today's date [ano, mes, dia]
    producto,             \* set of Product rows [id, sku, descripcion]
    ventaHistorica,       \* set of HistoricalMonthlySale rows
    ventaActual,          \* set of CurrentMonthSale rows
    pedido,               \* set of PurchaseOrderLine rows
    erpDocs,              \* the ERP's sales documents (sequence)
    erpStock,             \* the ERP's stock snapshot (sequence of entries)
    erpProductos,         \* the ERP's product catalogue (sequence of entries)
    procs,                \* per running sync: its position and local variables
    lastOp,               \* the last operation that ran, with its arguments
    pre,                  \* the database as it was before the last operation
    pre0                  \* the database before the first of the last run of equal operations

authVars == <<authVariant, authToken, tokenExpirationTime, authPromise, clock,
              pc, joined, result, posts, inflightAtCall>>
fnVars == <<fnIn, fnOut>>
dbVars == <<hoy, producto, ventaHistorica, ventaActual, pedido, erpDocs, erpStock,
            erpProductos, procs, lastOp, pre, pre0>>
vars == <<authVars, fnVars, dbVars>>

\* ---- idle values of each group, used by the specifications that do not drive it
NoOp == [name |-> "none", n |-> 0, rep |-> 0]
NoDb == [producto |-> {}, ventaHistorica |-> {}, ventaActual |-> {}, pedido |-> {}]

AuthIdle ==
    /\ authVariant = "locked"
    /\ authToken = 0
    /\ tokenExpirationTime = 0
    /\ authPromise = 0
    /\ clock = 0
    /\ pc = <<>>
    /\ joined = <<>>
    /\ result = <<>>
    /\ posts = 0
    /\ inflightAtCall = <<>>

FnIdle ==
    /\ fnIn = NoOp
    /\ fnOut = NoOp

DbIdle ==
    /\ hoy = [ano |-> 0, mes |-> 1, dia |-> 1]
    /\ producto = {}
    /\ ventaHistorica = {}
    /\ ventaActual = {}
    /\ pedido = {}
    /\ erpDocs = <<>>
    /\ erpStock = <<>>
    /\ erpProductos = <<>>
    /\ procs = <<>>
    /\ lastOp = NoOp
    /\ pre = NoDb
    /\ pre0 = NoDb

(***************************************************************************)
(* ERP client adapter: authentication with a cached bearer token.          *)
(* Two files implement utils/auth: one with the single-flight lock         *)
(* (authPromise) and one without it.  Tokens are numbered by the POST that *)
(* produced them: token k is the auth_token returned by the k-th POST.     *)
(***************************************************************************)
NumCallers == 3
MaxPosts == 3
MaxClock == 2
TokenTTL == 1   \* 60 * 60 * 1000 ms, in hours

Callers == 1..NumCallers

\* the cache test without the expiry comparison
TokenValid_IgnoresExpiry == authToken # 0

\* authToken && tokenExpirationTime && Date.now() < tokenExpirationTime
TokenValid ==
    /\ authToken # 0
    /\ tokenExpirationTime # 0
    /\ clock < tokenExpirationTime

\* authenticateWithERP up to its first suspension: the POST is issued
IssuePost(c) ==
    /\ posts < MaxPosts
    /\ posts' = posts + 1
    /\ joined' = [joined EXCEPT ![c] = posts + 1]
    /\ pc' = [pc EXCEPT ![c] = "awaitPost"]

\* getAuthToken with the lock, from the call to its first suspension
GetAuthTokenLocked(c) ==
    IF TokenValid
    THEN /\ result' = [result EXCEPT ![c] = authToken]
         /\ pc' = [pc EXCEPT ![c] = "done"]
         /\ UNCHANGED <<authPromise, posts, joined>>
    ELSE IF authPromise # 0
    THEN /\ pc' = [pc EXCEPT ![c] = "awaitLock"]
         /\ joined' = [joined EXCEPT ![c] = joined[authPromise]]
         /\ UNCHANGED <<authPromise, posts, result>>
    ELSE /\ IssuePost(c)
         /\ authPromise' = c
         /\ UNCHANGED result

\* getAuthToken without the lock, from the call to its first suspension
GetAuthTokenPlain(c) ==
    IF TokenValid
    THEN /\ result' = [result EXCEPT ![c] = authToken]
         /\ pc' = [pc EXCEPT ![c] = "done"]
         /\ UNCHANGED <<authPromise, posts, joined>>
    ELSE /\ IssuePost(c)
         /\ UNCHANGED <<authPromise, result>>

\* getAuthHeaders / getAuthToken called by c
GetAuthHeaders(c) ==
    /\ pc[c] = "idle"
    /\ inflightAtCall' = [inflightAtCall EXCEPT ![c] =
                             \E d \in Callers : pc[d] = "awaitPost"]
    /\ IF authVariant = "locked" THEN GetAuthTokenLocked(c) ELSE GetAuthTokenPlain(c)
    /\ UNCHANGED <<authVariant, authToken, tokenExpirationTime, clock>>
    /\ UNCHANGED <<fnVars, dbVars>>

\* callers resumed when the authentication started by c settles
Resumed(c) ==
    {c} \cup {d \in Callers : pc[d] = "awaitLock" /\ joined[d] = joined[c]}

\* the POST of c answers 200: authenticateWithERP stores the token and its
\* expiry and resolves; the initiator's finally clears the lock, and every
\* caller awaiting the promise receives its value
AuthSucceeds(c) ==
    /\ pc[c] = "awaitPost"
    /\ authToken' = joined[c]
    /\ tokenExpirationTime' = clock + TokenTTL
    /\ authPromise' = IF authVariant = "locked" THEN 0 ELSE authPromise
    /\ pc' = [d \in Callers |-> IF d \in Resumed(c) THEN "done" ELSE pc[d]]
    /\ result' = [d \in Callers |-> IF d \in Resumed(c) THEN joined[c] ELSE result[d]]
    /\ UNCHANGED <<authVariant, clock, joined, posts, inflightAtCall>>
    /\ UNCHANGED <<fnVars, dbVars>>

\* the POST of c fails without the initiator's finally clearing the lock
AuthFails_KeepsLock(c) ==
    /\ pc[c] = "awaitPost"
    /\ UNCHANGED authPromise
    /\ pc' = [d \in Callers |-> IF d \in Resumed(c) THEN "failed" ELSE pc[d]]
    /\ UNCHANGED <<authVariant, authToken, tokenExpirationTime, clock, joined,
                   result, posts, inflightAtCall>>
    /\ UNCHANGED <<fnVars, dbVars>>

\* the POST of c fails: authenticateWithERP throws, the promise rejects, the
\* initiator's finally clears the lock, and every awaiting caller gets the error
AuthFails(c) ==
    /\ pc[c] = "awaitPost"
    /\ authPromise' = IF authVariant = "locked" THEN 0 ELSE authPromise
    /\ pc' = [d \in Callers |-> IF d \in Resumed(c) THEN "failed" ELSE pc[d]]
    /\ UNCHANGED <<authVariant, authToken, tokenExpirationTime, clock, joined,
                   result, posts, inflightAtCall>>
    /\ UNCHANGED <<fnVars, dbVars>>

\* the caller consumes the outcome and may call again later
CallerReturns(c) ==
    /\ pc[c] \in {"done", "failed"}
    /\ pc' = [pc EXCEPT ![c] = "idle"]
    /\ joined' = [joined EXCEPT ![c] = 0]
    /\ result' = [result EXCEPT ![c] = 0]
    /\ inflightAtCall' = [inflightAtCall EXCEPT ![c] = FALSE]
    /\ UNCHANGED <<authVariant, authToken, tokenExpirationTime, authPromise, clock, posts>>
    /\ UNCHANGED <<fnVars, dbVars>>

\* time passes
Tick ==
    /\ clock < MaxClock
    /\ clock' = clock + 1
    /\ UNCHANGED <<authVariant, authToken, tokenExpirationTime, authPromise,
                   pc, joined, result, posts, inflightAtCall>>
    /\ UNCHANGED <<fnVars, dbVars>>

AuthInit ==
    /\ authVariant \in {"locked", "plain"}
    /\ authToken = 0
    /\ tokenExpirationTime = 0
    /\ authPromise = 0
    /\ clock = 0
    /\ pc = [c \in Callers |-> "idle"]
    /\ joined = [c \in Callers |-> 0]
    /\ result = [c \in Callers |-> 0]
    /\ posts = 0
    /\ inflightAtCall = [c \in Callers |-> FALSE]

InitAuth == AuthInit /\ FnIdle /\ DbIdle
NextAuth ==
    \/ \E c \in Callers : GetAuthHeaders(c)
    \/ \E c \in Callers : AuthSucceeds(c)
    \/ \E c \in Callers : AuthFails(c)
    \/ \E c \in Callers : CallerReturns(c)
    \/ Tick
SpecAuth == InitAuth /\ [][NextAuth]_vars

\* the same, with the lock-holding file loaded
InitAuthLocked == InitAuth /\ authVariant = "locked"
SpecAuthLocked == InitAuthLocked /\ [][NextAuth]_vars

\* C1: while no valid token is cached, concurrent getAuthHeaders calls issued
\* before the authentication settles cause exactly one authentication POST:
\* never two POSTs in flight, and a caller that arrived while one was in
\* flight issued none of its own and, once done, holds that POST's token.
C1_SingleFlight ==
    /\ Cardinality({c \in Callers : pc[c] = "awaitPost"}) <= 1
    /\ \A c \in Callers : inflightAtCall[c] /\ pc[c] # "idle" => pc[c] # "awaitPost"
    /\ \A c, d \in Callers :
         /\ pc[c] = "done" /\ inflightAtCall[c]
         /\ joined[d] = joined[c]
         /\ pc[d] = "done"
         => result[c] = result[d] /\ result[c] = joined[c]

\* C1 witness: two callers joined the same POST and both hold its token
C1_Witness ==
    \E c, d \in Callers :
        /\ c # d
        /\ authVariant = "locked"
        /\ pc[c] = "done" /\ pc[d] = "done"
        /\ inflightAtCall[d]
        /\ joined[c] = joined[d] /\ joined[c] # 0
        /\ result[c] = joined[c] /\ result[d] = joined[c]

(***************************************************************************)
(* JavaScript values of the ERP payloads.                                  *)
(* A numeric field is [str, n]: the number n, or (str) the numeric string  *)
(* "n".  Num(0) also stands for an absent field: undefined and 0 are both  *)
(* falsy, and every use below is behind `||` or parseFloat(x || 0).        *)
(* A text field is a string; "" also stands for an absent field.           *)
(***************************************************************************)
Num(n) == [str |-> FALSE, n |-> n]
Str(n) == [str |-> TRUE, n |-> n]

\* truthiness of a numeric field: 0 and undefined are falsy, "0" is truthy
Truthy(v) == v.str \/ v.n # 0
\* a || b on numeric fields
OrV(a, b) == IF Truthy(a) THEN a ELSE b
\* a || b on text fields
OrS(a, b) == IF a # "" THEN a ELSE b
\* parseFloat of a number or of a numeric string
ParseFloat(v) == v.n
\* String.prototype.trim on the text values the model uses
Trim(s) == IF s = " " THEN "" ELSE IF s = " A" THEN "A" ELSE s

\* a line item with no field set
EmptyItem ==
    [codigo |-> "", cod_prod |-> "", codigo_prod |-> "", cod_art |-> "",
     cod_producto |-> "", cod |-> "", sku |-> "",
     cantidad |-> Num(0), cant |-> Num(0), quantity |-> Num(0),
     monto_neto |-> Num(0), neto |-> Num(0), precio_neto |-> Num(0),
     precio_unitario |-> Num(0), precio_unit |-> Num(0), unit_price |-> Num(0),
     precio |-> Num(0), monto |-> Num(0), total |-> Num(0)]

\* a collection-valued field of a document: absent, an array, or a keyed object
NoColl == [kind |-> "absent", items |-> <<>>]
Arr(items) == [kind |-> "array", items |-> items]
Obj(items) == [kind |-> "object", items |-> items]
CollTruthy(c) == c.kind # "absent"
OrC(a, b) == IF CollTruthy(a) THEN a ELSE b

EmptyDoc ==
    [detalles |-> NoColl, detalle |-> NoColl, items |-> NoColl,
     productos |-> NoColl, line_items |-> NoColl]

(***************************************************************************)
(* Document extractor, salesService variant.                               *)
(***************************************************************************)
\* the line of extractProductsFromDocument's loop body for one item:
\* <<>> when the item is dropped, else the one extracted product
ExtractItem(item) ==
    LET sku == OrS(item.codigo, OrS(item.cod_prod, OrS(item.codigo_prod,
                   OrS(item.cod_art, item.sku))))
        cantidad == ParseFloat(OrV(item.cantidad, OrV(item.cant, Num(0))))
        directo == ParseFloat(OrV(item.monto_neto, OrV(item.neto,
                       OrV(item.precio_neto, Num(0)))))
        montoNeto == IF directo = 0 /\ Truthy(item.precio_unitario)
                     THEN ParseFloat(item.precio_unitario) * cantidad
                     ELSE directo
    IN IF sku # "" /\ cantidad # 0
       THEN <<[sku |-> sku, cantidad |-> cantidad, montoNeto |-> montoNeto]>>
       ELSE <<>>

RECURSIVE ExtractItems(_)
ExtractItems(items) ==
    IF items = <<>> THEN <<>>
    ELSE ExtractItem(Head(items)) \o ExtractItems(Tail(items))

extractProductsFromDocument(document) ==
    LET details == OrC(document.detalles, OrC(document.detalle,
                       OrC(document.items, Arr(<<>>))))
    IN IF details.kind # "array" THEN <<>> ELSE ExtractItems(details.items)

(***************************************************************************)
(* Document extractor, faveService variant.                                *)
(***************************************************************************)
ExtractDetalle(detalle) ==
    LET sku == Trim(OrS(detalle.codigo, OrS(detalle.codigo_prod,
                   OrS(detalle.cod_producto, OrS(detalle.cod, OrS(detalle.sku, ""))))))
        cantidad == ParseFloat(OrV(detalle.cant, OrV(detalle.cantidad,
                        OrV(detalle.quantity, Num(0)))))
        precioUnitario == ParseFloat(OrV(detalle.precio_unitario,
                              OrV(detalle.precio_unit, OrV(detalle.unit_price,
                              OrV(detalle.precio, Num(0))))))
        producto0 == precioUnitario * cantidad
        directo == OrV(detalle.monto_neto, OrV(detalle.monto, detalle.total))
        montoNeto == IF producto0 = 0 /\ Truthy(directo)
                     THEN ParseFloat(OrV(directo, Num(0)))
                     ELSE producto0
    IN IF sku # "" /\ cantidad > 0
       THEN <<[sku |-> sku, cantidad |-> cantidad, montoNeto |-> montoNeto]>>
       ELSE <<>>

RECURSIVE ExtractDetalles(_)
ExtractDetalles(detalles) ==
    IF detalles = <<>> THEN <<>>
    ELSE ExtractDetalle(Head(detalles)) \o ExtractDetalles(Tail(detalles))

extractProductosFromFAVE(faveDetails) ==
    LET d0 == faveDetails.detalles
        d1 == IF d0.kind # "array"
              THEN OrC(faveDetails.detalle, OrC(faveDetails.items,
                       OrC(faveDetails.productos, OrC(faveDetails.line_items, Arr(<<>>)))))
              ELSE d0
        \* Object.values of a keyed object; an array stays as it is
    IN ExtractDetalles(d1.items)

\* ---- the extractors applied to bounded inputs
MaxItems == 2

SkuFieldNames == {"none", "codigo", "cod_prod", "codigo_prod", "sku"}
QtyFieldNames == {"cantidad", "cant"}
QtyValues == {Num(0 - 1), Num(0), Num(2), Str(0)}
SkuValues == {"A", " "}

WithSku(item, f, s) ==
    CASE f = "codigo" -> [item EXCEPT !.codigo = s]
      [] f = "cod_prod" -> [item EXCEPT !.cod_prod = s]
      [] f = "codigo_prod" -> [item EXCEPT !.codigo_prod = s]
      [] f = "sku" -> [item EXCEPT !.sku = s]
      [] OTHER -> item

WithQty(item, f, q) ==
    IF f = "cantidad" THEN [item EXCEPT !.cantidad = q] ELSE [item EXCEPT !.cant = q]

\* line items with at most one SKU field and exactly one quantity field set,
\* priced either by a unit price or by a direct net amount
SampleItems ==
    { WithQty(WithSku(base, sf, sv), qf, qv) :
        base \in { [EmptyItem EXCEPT !.precio_unitario = Num(5)],
                   [EmptyItem EXCEPT !.monto_neto = Num(7)] },
        sf \in SkuFieldNames, sv \in {"A"}, qf \in QtyFieldNames, qv \in QtyValues }
    \cup { WithQty(WithSku(EmptyItem, "codigo", " "), "cant", Num(2)) }

\* every sample item alone; the longer sequences are drawn from the items
\* priced by unit price whose quantity field is cantidad
SeqItems ==
    { WithQty(WithSku([EmptyItem EXCEPT !.precio_unitario = Num(5)], sf, "A"),
              "cantidad", qv) :
        sf \in {"none", "codigo", "cod_prod"}, qv \in {Num(0 - 1), Num(0), Num(2)} }
ItemSeqs ==
    UNION { [1..n -> IF n <= 1 THEN SampleItems ELSE SeqItems] : n \in 0..MaxItems }

SampleDocuments ==
    { [EmptyDoc EXCEPT !.detalles = Arr(items)] : items \in ItemSeqs }
    \cup { [EmptyDoc EXCEPT !.items = Arr(items)] : items \in ItemSeqs }
    \cup { [EmptyDoc EXCEPT !.detalle = Obj(items)] : items \in ItemSeqs }
    \cup { EmptyDoc }

ApplyExtractDocument ==
    /\ fnIn.name = "document"
    /\ fnOut = NoOp
    /\ fnOut' = [name |-> "extractProductsFromDocument",
                 products |-> extractProductsFromDocument(fnIn.doc)]
    /\ UNCHANGED <<fnIn, authVars, dbVars>>

ApplyExtractFAVE ==
    /\ fnIn.name = "document"
    /\ fnOut = NoOp
    /\ fnOut' = [name |-> "extractProductosFromFAVE",
                 products |-> extractProductosFromFAVE(fnIn.doc)]
    /\ UNCHANGED <<fnIn, authVars, dbVars>>

InitExtract ==
    /\ fnIn \in { [name |-> "document", doc |-> d] : d \in SampleDocuments }
    /\ fnOut = NoOp
    /\ AuthIdle /\ DbIdle
NextExtract == ApplyExtractDocument \/ ApplyExtractFAVE
SpecExtract == InitExtract /\ [][NextExtract]_vars

\* ---- what the claim expects of a line item, read off its populated fields
\* the SKU of a line item that sets one of the aliases the claim names
ClaimSku(item) == OrS(item.codigo, item.cod_prod)
\* the quantity of a line item (the model's items set exactly one quantity field)
ClaimQty(item) == IF item.cantidad # Num(0) THEN item.cantidad.n ELSE item.cant.n
\* the line items of a document whose collection is an array
ClaimLines(doc) ==
    IF doc.detalles.kind = "array" THEN doc.detalles.items
    ELSE IF doc.items.kind = "array" THEN doc.items.items
    ELSE <<>>
\* the claim is about documents whose line items come as an array, each line
\* naming its SKU through codigo or cod_prod (or not at all)
ClaimAliasOnly(item) == item.codigo_prod = "" /\ item.sku = ""
ClaimCase(doc) ==
    /\ doc.detalle.kind = "absent"
    /\ \A i \in 1..Len(ClaimLines(doc)) : ClaimAliasOnly(ClaimLines(doc)[i])
ClaimKept(item) == ClaimSku(item) # "" /\ ClaimQty(item) # 0
RECURSIVE ClaimExpected(_)
ClaimExpected(items) ==
    IF items = <<>> THEN <<>>
    ELSE (IF ClaimKept(Head(items))
          THEN <<[sku |-> ClaimSku(Head(items)), cantidad |-> ClaimQty(Head(items))]>>
          ELSE <<>>) \o ClaimExpected(Tail(items))
SkuQty(products) ==
    [i \in 1..Len(products) |-> [sku |-> products[i].sku, cantidad |-> products[i].cantidad]]

\* C8: each extractor resolves a line's SKU through the aliases codigo and
\* cod_prod alike, drops a line exactly when it has no SKU or its quantity is
\* 0, and keeps lines of negative quantity.
C8_ExtractorKeepsAndDrops ==
    /\ fnOut # NoOp
    /\ fnIn.name = "document"
    /\ ClaimCase(fnIn.doc)
    => SkuQty(fnOut.products) = ClaimExpected(ClaimLines(fnIn.doc))

\* C8 restricted to the salesService extractor, which does satisfy it
C8_DocumentExtractorOnly ==
    /\ fnOut # NoOp
    /\ fnIn.name = "document"
    /\ fnOut.name = "extractProductsFromDocument"
    /\ ClaimCase(fnIn.doc)
    => SkuQty(fnOut.products) = ClaimExpected(ClaimLines(fnIn.doc))

(***************************************************************************)
(* Stock service: the warehouse filter and a product's stock.              *)
(* Warehouse names are sequences of characters, so that toLowerCase, trim  *)
(* and includes are computed and not assumed.                              *)
(***************************************************************************)
Uppers == <<"A", "B", "C", "D", "E", "F", "G", "H", "I", "J", "K", "L", "M", "N", "O", "P", "Q", "R", "S", "T", "U", "V", "W", "X", "Y", "Z">>
Lowers == <<"a", "b", "c", "d", "e", "f", "g", "h", "i", "j", "k", "l", "m", "n", "o", "p", "q", "r", "s", "t", "u", "v", "w", "x", "y", "z">>
LowerChar(ch) ==
    IF \E i \in 1..Len(Uppers) : Uppers[i] = ch
    THEN Lowers[CHOOSE i \in 1..Len(Uppers) : Uppers[i] = ch]
    ELSE ch
ToLowerCase(s) == [i \in 1..Len(s) |-> LowerChar(s[i])]
RECURSIVE TrimLeft(_)
TrimLeft(s) == IF s # <<>> /\ Head(s) = " " THEN TrimLeft(Tail(s)) ELSE s
RECURSIVE TrimRight(_)
TrimRight(s) ==
    IF s # <<>> /\ s[Len(s)] = " " THEN TrimRight(SubSeq(s, 1, Len(s) - 1)) ELSE s
TrimChars(s) == TrimRight(TrimLeft(s))
Includes(s, pat) ==
    \E i \in 0..(Len(s) - Len(pat)) : SubSeq(s, i + 1, i + Len(pat)) = pat
\* a || b on character sequences (the empty string is falsy)
OrN(a, b) == IF a # <<>> THEN a ELSE b

Temporal == <<"t", "e", "m", "p", "o", "r", "a", "l">>
General == <<"g", "e", "n", "e", "r", "a", "l">>

\* the name isGeneralWarehouse reads: the first non-empty alias, lower-cased
\* and trimmed
WarehouseName(stockItem) ==
    TrimChars(ToLowerCase(OrN(stockItem.bodega, OrN(stockItem.almacen,
        OrN(stockItem.descripcion_bodega, OrN(stockItem.nombre_bodega,
        OrN(stockItem.bod, <<>>)))))))

\* the filter without toLowerCase
isGeneralWarehouse_CaseSensitive(stockItem) ==
    LET name == TrimChars(OrN(stockItem.bodega, OrN(stockItem.almacen,
                    OrN(stockItem.descripcion_bodega, OrN(stockItem.nombre_bodega,
                    OrN(stockItem.bod, <<>>))))))
    IN ~Includes(name, Temporal)

isGeneralWarehouse(stockItem) ==
    LET name == WarehouseName(stockItem)
    IN IF name = <<>> THEN TRUE
       ELSE IF Includes(name, Temporal) THEN FALSE
       ELSE IF Includes(name, General) THEN TRUE
       ELSE ~Includes(name, Temporal)

\* processItem of extractStockFromProduct: what one stock record adds
ProcessItem(item) ==
    IF ~item.obj THEN 0
    ELSE LET isGeneral == isGeneralWarehouse(item)
             saldoNum == ParseFloat(OrV(item.saldo, Num(0)))
         IN IF isGeneral /\ saldoNum > 0 THEN saldoNum ELSE 0

RECURSIVE ProcessItems(_)
ProcessItems(items) ==
    IF items = <<>> THEN 0 ELSE ProcessItem(Head(items)) + ProcessItems(Tail(items))

\* stockEntries.forEach: an entry is a record, or an array of records
RECURSIVE ProcessEntries(_)
ProcessEntries(entries) ==
    IF entries = <<>> THEN 0
    ELSE ProcessItems(Head(entries).items) + ProcessEntries(Tail(entries))

\* product.stock is absent, not an array, or an array of entries
extractStockFromProduct(product) ==
    IF product.stock.kind # "array" THEN 0
    ELSE IF Len(product.stock.items) = 0 THEN 0
    ELSE ProcessEntries(product.stock.items)

\* ---- bounded inputs
MaxEntries == 2

NameGeneral == <<"B", "o", "d", "e", "g", "a", " ", "G", "e", "n", "e", "r", "a", "l">>
NameTemporal == <<"B", "o", "d", "e", "g", "a", " ", "T", "e", "m", "p", "o", "r", "a", "l">>
NameTemporalUpper == <<"T", "E", "M", "P", "O", "R", "A", "L", " ", "2">>
NameTemporalLower == <<"b", "o", "d", "e", "g", "a", " ", "t", "e", "m", "p", "o", "r", "a", "l">>
NameCentral == <<"C", "e", "n", "t", "r", "a", "l">>
NameBlank == <<" ", " ">>
NameBoth == <<"G", "e", "n", "e", "r", "a", "l", " ", "T", "e", "m", "p", "o", "r", "a", "l">>
SampleNames == {NameGeneral, NameTemporal, NameTemporalUpper, NameTemporalLower,
                NameCentral, NameBlank, NameBoth}

EmptyStockItem ==
    [obj |-> TRUE, bodega |-> <<>>, almacen |-> <<>>, descripcion_bodega |-> <<>>,
     nombre_bodega |-> <<>>, bod |-> <<>>, saldo |-> Num(0)]
NullStockItem == [EmptyStockItem EXCEPT !.obj = FALSE]

\* stock records with at most one warehouse-name field set
SampleStockItems ==
    { [EmptyStockItem EXCEPT !.saldo = sv] : sv \in {Num(4), Str(6)} }
    \cup { [EmptyStockItem EXCEPT !.bodega = nm, !.saldo = sv] :
             nm \in SampleNames, sv \in {Num(0 - 3), Num(4)} }
    \cup { [EmptyStockItem EXCEPT !.nombre_bodega = nm, !.saldo = Num(5)] :
             nm \in {NameTemporal, NameGeneral} }
    \cup { NullStockItem }

\* one entry of product.stock: a record, or an array of records
One(item) == [arr |-> FALSE, items |-> <<item>>]
Many(items) == [arr |-> TRUE, items |-> items]
StockItemSeqs == UNION { [1..n -> SampleStockItems] : n \in 0..MaxEntries }
SampleStockFields ==
    { Arr([i \in 1..Len(items) |-> One(items[i])]) : items \in StockItemSeqs }
    \cup { Arr(<<Many(items)>>) : items \in StockItemSeqs }
    \cup { NoColl, Obj(<<>>) }

\* the records of product.stock, flattened
RECURSIVE Flatten(_)
Flatten(entries) ==
    IF entries = <<>> THEN <<>> ELSE Head(entries).items \o Flatten(Tail(entries))

ApplyExtractStock ==
    /\ fnIn.name = "product"
    /\ fnOut = NoOp
    /\ fnOut' = [name |-> "extractStockFromProduct",
                 stock |-> extractStockFromProduct(fnIn.product),
                 general |-> [i \in 1..Len(Flatten(fnIn.product.stock.items)) |->
                                isGeneralWarehouse(Flatten(fnIn.product.stock.items)[i])]]
    /\ UNCHANGED <<fnIn, authVars, dbVars>>

InitStock ==
    /\ fnIn \in { [name |-> "product", product |-> [stock |-> st]] : st \in SampleStockFields }
    /\ fnOut = NoOp
    /\ AuthIdle /\ DbIdle
NextStock == ApplyExtractStock
SpecStock == InitStock /\ [][NextStock]_vars

\* ---- what the claim expects, read off the sample names
\* the sample names that contain "temporal" in some letter case
NamesWithTemporal == {NameTemporal, NameTemporalUpper, NameTemporalLower, NameBoth}
\* the warehouse name a sample record carries (at most one field is set)
ClaimWarehouse(item) == OrN(item.bodega, item.nombre_bodega)
ClaimIncluded(item) == ClaimWarehouse(item) \notin NamesWithTemporal
RECURSIVE ClaimStock(_)
ClaimStock(items) ==
    IF items = <<>> THEN 0
    ELSE (IF Head(items).obj /\ ClaimIncluded(Head(items)) /\ Head(items).saldo.n > 0
          THEN Head(items).saldo.n ELSE 0) + ClaimStock(Tail(items))
ClaimRecords == Flatten(fnIn.product.stock.items)

\* C9: the warehouse filter excludes exactly the records whose warehouse name
\* contains "temporal" in any letter case (a record named "Bodega General" or
\* with no name is included), and a product's stock is the sum of the positive
\* balances of the included records.
C9_WarehouseFilter ==
    fnOut # NoOp /\ fnIn.name = "product" =>
        /\ \A i \in 1..Len(ClaimRecords) :
             fnOut.general[i] = ClaimIncluded(ClaimRecords[i])
        /\ fnOut.stock = (IF fnIn.product.stock.kind = "array"
                          THEN ClaimStock(ClaimRecords) ELSE 0)

\* C9 witness: a Temporal record with a positive balance was left out, while a
\* General record and a record with no warehouse name were counted
C9_Witness ==
    /\ fnOut # NoOp /\ fnIn.name = "product"
    /\ \E i, j \in 1..Len(ClaimRecords) :
         /\ ClaimRecords[i].bodega = NameTemporal /\ ClaimRecords[i].saldo = Num(4)
         /\ ~fnOut.general[i]
         /\ ClaimRecords[j].bodega \in {NameGeneral, <<>>} /\ ClaimRecords[j].saldo.n > 0
         /\ ClaimRecords[j].obj
         /\ fnOut.general[j]
         /\ fnOut.stock = ClaimRecords[j].saldo.n

(***************************************************************************)
(* Calendar.  A date is [ano, mes, dia]; date-fns' subMonths on the first  *)
(* of a month, followed by getYear and getMonth + 1, goes through the      *)
(* month count since year 0.                                               *)
(***************************************************************************)
MonthIndex(ano, mes) == ano * 12 + (mes - 1)
FromMonthIndex(i) == [ano |-> i \div 12, mes |-> (i % 12) + 1]
\* subMonths(new Date(ano, mes - 1, 1), k), as { ano, mes }
subMonths(ym, k) == FromMonthIndex(MonthIndex(ym.ano, ym.mes) - k)
\* getMesActual()
getMesActual == [ano |-> hoy.ano, mes |-> hoy.mes]

\* the database, as one value
Db == [producto |-> producto, ventaHistorica |-> ventaHistorica,
       ventaActual |-> ventaActual, pedido |-> pedido]

(***************************************************************************)
(* Rotation engine.                                                        *)
(***************************************************************************)
SameKey(h, productoId, ano, mes) ==
    h.productoId = productoId /\ h.ano = ano /\ h.mes = mes

\* a rotation upsert that adds to the stored row instead of overwriting it
RotUpsert_Accumulate(vh, ventaActualRow, mesActual) ==
    LET old == {h \in vh : SameKey(h, ventaActualRow.productoId, mesActual.ano, mesActual.mes)}
        c0 == IF old = {} THEN 0 ELSE (CHOOSE h \in old : TRUE).cantidadVendida
        m0 == IF old = {} THEN 0 ELSE (CHOOSE h \in old : TRUE).montoNeto
    IN (vh \ old) \cup
       {[productoId |-> ventaActualRow.productoId, ano |-> mesActual.ano,
         mes |-> mesActual.mes,
         cantidadVendida |-> c0 + ventaActualRow.cantidadVendida,
         montoNeto |-> m0 + ventaActualRow.montoNeto]}

\* tx.ventaHistorica.upsert of rotarVentasActualesAHistoricas: update the row
\* of the key when there is one, else create it
RotUpsert(vh, ventaActualRow, mesActual) ==
    {h \in vh : ~SameKey(h, ventaActualRow.productoId, mesActual.ano, mesActual.mes)}
    \cup {[productoId |-> ventaActualRow.productoId, ano |-> mesActual.ano,
           mes |-> mesActual.mes,
           cantidadVendida |-> ventaActualRow.cantidadVendida,
           montoNeto |-> ventaActualRow.montoNeto]}

\* tx.ventaActual.update: reset the sales of the row, keep stockActual
RotReset(ventaActualRow) ==
    [ventaActualRow EXCEPT !.cantidadVendida = 0, !.montoNeto = 0]

\* the fates of the two statements of one loop iteration
Fates == {"ok", "upsertFails", "updateFails"}

\* a loop that a thrown statement ends
RECURSIVE RotLoop_StopsAtFirstError(_, _, _, _, _)
RotLoop_StopsAtFirstError(rows, vh, va, mesActual, fate) ==
    IF rows = {} THEN [ventaHistorica |-> vh, ventaActual |-> va]
    ELSE LET r == CHOOSE x \in rows : \A y \in rows : x.productoId <= y.productoId
         IN IF fate[r.productoId] = "upsertFails"
            THEN [ventaHistorica |-> vh, ventaActual |-> va]
            ELSE IF fate[r.productoId] = "updateFails"
            THEN [ventaHistorica |-> RotUpsert(vh, r, mesActual), ventaActual |-> va]
            ELSE RotLoop_StopsAtFirstError(rows \ {r}, RotUpsert(vh, r, mesActual),
                                           (va \ {r}) \cup {RotReset(r)}, mesActual, fate)

\* the loop of rotarVentasActualesAHistoricas over the rows read at the
\* start; fate[p] says which statement, if any, throws for product p (the
\* catch counts it and the loop goes on)
RECURSIVE RotLoop(_, _, _, _, _)
RotLoop(rows, vh, va, mesActual, fate) ==
    IF rows = {} THEN [ventaHistorica |-> vh, ventaActual |-> va]
    ELSE LET r == CHOOSE x \in rows : \A y \in rows : x.productoId <= y.productoId
             vh1 == IF fate[r.productoId] = "upsertFails" THEN vh
                    ELSE RotUpsert(vh, r, mesActual)
             va1 == IF fate[r.productoId] = "ok"
                    THEN (va \ {r}) \cup {RotReset(r)}
                    ELSE va
         IN RotLoop(rows \ {r}, vh1, va1, mesActual, fate)

rotarVentasActualesAHistoricas(db, mesActual, fate) ==
    IF db.ventaActual = {}
    THEN [db |-> db, rotadas |-> 0, errores |-> 0]
    ELSE LET out == RotLoop(db.ventaActual, db.ventaHistorica, db.ventaActual,
                            mesActual, fate)
         IN [db |-> [db EXCEPT !.ventaHistorica = out.ventaHistorica,
                               !.ventaActual = out.ventaActual],
             rotadas |-> Cardinality({r \in db.ventaActual : fate[r.productoId] = "ok"}),
             errores |-> Cardinality({r \in db.ventaActual : fate[r.productoId] # "ok"})]

RetentionMonths == 12

\* the where clause of both deleteMany, with <= for < on the month
EsAntiguo_Lte(row, mesActual) ==
    LET limite == subMonths(mesActual, RetentionMonths)
    IN \/ row.ano < limite.ano
       \/ (row.ano = limite.ano /\ row.mes <= limite.mes)

\* the where clause of both deleteMany of limpiarDatosAntiguos
EsAntiguo(row, mesActual) ==
    LET limite == subMonths(mesActual, RetentionMonths)
    IN \/ row.ano < limite.ano
       \/ (row.ano = limite.ano /\ row.mes < limite.mes)

limpiarDatosAntiguos(db, mesActual) ==
    [db EXCEPT !.ventaHistorica = {h \in db.ventaHistorica : ~EsAntiguo(h, mesActual)},
               !.pedido = {q \in db.pedido : ~EsAntiguo(q, mesActual)}]

\* ---- actions over the database
MaxOps == 2

SetDb(db) ==
    /\ producto' = db.producto
    /\ ventaHistorica' = db.ventaHistorica
    /\ ventaActual' = db.ventaActual
    /\ pedido' = db.pedido

\* bookkeeping of every operation: what ran, on what, and how often in a row
Record(op) ==
    /\ lastOp.n < MaxOps
    /\ lastOp' = [op EXCEPT !.n = lastOp.n + 1,
                            !.rep = IF [lastOp EXCEPT !.n = 0, !.rep = 0] =
                                       [op EXCEPT !.n = 0, !.rep = 0]
                                    THEN lastOp.rep + 1 ELSE 1]
    /\ pre' = Db
    /\ pre0' = IF [lastOp EXCEPT !.n = 0, !.rep = 0] = [op EXCEPT !.n = 0, !.rep = 0]
               THEN pre0 ELSE Db
    /\ UNCHANGED <<authVars, fnVars>>

FateMaps == [{r.productoId : r \in ventaActual} -> Fates]

Rotate ==
    \E fate \in FateMaps :
        LET out == rotarVentasActualesAHistoricas(Db, getMesActual, fate)
        IN /\ SetDb(out.db)
           /\ Record([name |-> "rotate", n |-> 0, rep |-> 0,
                      rotadas |-> out.rotadas, errores |-> out.errores])
           /\ UNCHANGED <<hoy, erpDocs, erpStock, erpProductos, procs>>

Prune ==
    /\ SetDb(limpiarDatosAntiguos(Db, getMesActual))
    /\ Record([name |-> "prune", n |-> 0, rep |-> 0])
    /\ UNCHANGED <<hoy, erpDocs, erpStock, erpProductos, procs>>

\* ejecutarRotacionCompleta: rotate, then prune
FullRotation ==
    \E fate \in FateMaps :
        LET out == rotarVentasActualesAHistoricas(Db, getMesActual, fate)
        IN /\ SetDb(limpiarDatosAntiguos(out.db, getMesActual))
           /\ Record([name |-> "fullRotation", n |-> 0, rep |-> 0,
                      rotadas |-> out.rotadas, errores |-> out.errores])
           /\ UNCHANGED <<hoy, erpDocs, erpStock, erpProductos, procs>>

\* the calendar moves on to the first day of the next month
NextMonth ==
    /\ LET ym == FromMonthIndex(MonthIndex(hoy.ano, hoy.mes) + 1)
       IN hoy' = [ano |-> ym.ano, mes |-> ym.mes, dia |-> 1]
    /\ Record([name |-> "nextMonth", n |-> 0, rep |-> 0])
    /\ UNCHANGED <<producto, ventaHistorica, ventaActual, pedido, erpDocs, erpStock, erpProductos, procs>>

\* ---- bounded initial databases
MonthsBefore(d, k) == subMonths([ano |-> d.ano, mes |-> d.mes], k)
HistRow(p, d, k, c, m) ==
    [productoId |-> p, ano |-> MonthsBefore(d, k).ano, mes |-> MonthsBefore(d, k).mes,
     cantidadVendida |-> c, montoNeto |-> m]
PedidoRow(p, d, k, c) ==
    [productoId |-> p, ano |-> MonthsBefore(d, k).ano, mes |-> MonthsBefore(d, k).mes,
     cantidad |-> c]
ActualRow(p, c, m, s) ==
    [productoId |-> p, cantidadVendida |-> c, montoNeto |-> m, stockActual |-> s]
ProductoRow(id, sku, descripcion) ==
    [id |-> id, sku |-> sku, descripcion |-> descripcion, familia |-> ""]

RotDates == { [ano |-> 2025, mes |-> 1, dia |-> 1], [ano |-> 2025, mes |-> 6, dia |-> 1] }
RotHistoricas(d) ==
    SUBSET { HistRow(1, d, 0, 9, 90), HistRow(1, d, 12, 8, 80), HistRow(2, d, 13, 7, 70) }
RotPedidos(d) == SUBSET { PedidoRow(1, d, 12, 4), PedidoRow(2, d, 13, 6) }
RotActuales ==
    { a \cup b : a \in { {}, {ActualRow(1, 3, 30, 5)}, {ActualRow(1, 0 - 1, 0 - 10, 0)} },
                 b \in { {}, {ActualRow(2, 2, 25, 8)} } }

InitRot ==
    /\ hoy \in RotDates
    /\ producto = { ProductoRow(1, "A", "Producto A"), ProductoRow(2, "B", "Producto B") }
    /\ ventaHistorica \in RotHistoricas(hoy)
    /\ ventaActual \in RotActuales
    /\ pedido \in RotPedidos(hoy)
    /\ erpDocs = <<>>
    /\ erpStock = <<>>
    /\ erpProductos = <<>>
    /\ procs = <<>>
    /\ lastOp = NoOp
    /\ pre = NoDb
    /\ pre0 = NoDb
    /\ AuthIdle /\ FnIdle
NextRot == Rotate \/ Prune \/ FullRotation \/ NextMonth
SpecRot == InitRot /\ [][NextRot]_vars

\* ---- C2
RowsOf(rows, p) == {r \in rows : r.productoId = p}
HistAt(rows, p, ym) == {h \in rows : SameKey(h, p, ym.ano, ym.mes)}

\* C2: after a rotation that met no error, every product that had a
\* CurrentMonthSale row (Q, A, S) has exactly one HistoricalMonthlySale row at
\* the current (year, month), holding Q and A whatever it held before, and its
\* CurrentMonthSale row holds 0, 0 and S.
C2_RotationTransfers ==
    lastOp.name = "rotate" /\ lastOp.errores = 0 =>
        \A r \in pre.ventaActual :
            /\ HistAt(ventaHistorica, r.productoId, getMesActual) =
                 {[productoId |-> r.productoId, ano |-> hoy.ano, mes |-> hoy.mes,
                   cantidadVendida |-> r.cantidadVendida, montoNeto |-> r.montoNeto]}
            /\ RowsOf(ventaActual, r.productoId) =
                 {[productoId |-> r.productoId, cantidadVendida |-> 0, montoNeto |-> 0,
                   stockActual |-> r.stockActual]}

\* C2 witness: a rotation overwrote an existing row of the current month with
\* the product's current sales and reset them, the stock staying 5
C2_Witness ==
    /\ lastOp.name = "rotate" /\ lastOp.errores = 0 /\ lastOp.rotadas = 2
    /\ ActualRow(1, 3, 30, 5) \in pre.ventaActual
    /\ HistRow(1, hoy, 0, 9, 90) \in pre.ventaHistorica
    /\ HistRow(1, hoy, 0, 3, 30) \in ventaHistorica
    /\ ActualRow(1, 0, 0, 5) \in ventaActual

\* ---- C5
\* the number of months from a row's (year, month) to the current one
MonthsAgo(row) == MonthIndex(hoy.ano, hoy.mes) - MonthIndex(row.ano, row.mes)

\* C5: pruning keeps every HistoricalMonthlySale and PurchaseOrderLine row
\* dated at most 12 months before the current month and deletes every row
\* dated 13 or more months before it.
C5_PruneBoundary ==
    lastOp.name = "prune" =>
        /\ ventaHistorica = {h \in pre.ventaHistorica : MonthsAgo(h) <= 12}
        /\ pedido = {q \in pre.pedido : MonthsAgo(q) <= 12}

\* C5 witness: a prune across a year boundary kept the rows of 12 months ago
\* and deleted those of 13 months ago
C5_Witness ==
    /\ lastOp.name = "prune"
    /\ \E h \in pre.ventaHistorica : MonthsAgo(h) = 12 /\ h \in ventaHistorica
                                      /\ h.ano < hoy.ano
    /\ \E h \in pre.ventaHistorica : MonthsAgo(h) = 13 /\ h \notin ventaHistorica
    /\ \E q \in pre.pedido : MonthsAgo(q) = 12 /\ q \in pedido
    /\ \E q \in pre.pedido : MonthsAgo(q) = 13 /\ q \notin pedido

(***************************************************************************)
(* Sales service: bulk fetch of the three document kinds and aggregation.  *)
(* An ERP document is [fecha, tipo, doc]; the requests are by day          *)
(* (yyyyMMdd), so a range is a range of days.                              *)
(***************************************************************************)
DOCUMENT_TYPES == <<"FAVE", "BOVE", "NCVE">>
DocTypeSet == {DOCUMENT_TYPES[i] : i \in 1..Len(DOCUMENT_TYPES)}

DateLeq(a, b) ==
    \/ MonthIndex(a.ano, a.mes) < MonthIndex(b.ano, b.mes)
    \/ (MonthIndex(a.ano, a.mes) = MonthIndex(b.ano, b.mes) /\ a.dia <= b.dia)
InRange(d, desde, hasta) == DateLeq(desde, d.fecha) /\ DateLeq(d.fecha, hasta)

RECURSIVE DocsOf(_, _, _, _)
DocsOf(docs, docType, desde, hasta) ==
    IF docs = <<>> THEN <<>>
    ELSE (IF Head(docs).tipo = docType /\ InRange(Head(docs), desde, hasta)
          THEN <<Head(docs).doc>> ELSE <<>>)
         \o DocsOf(Tail(docs), docType, desde, hasta)

\* getDocumentsByType when the ERP answers (after any 429 retries)
getDocumentsByType(docType, fechaInicio, fechaFin) ==
    DocsOf(erpDocs, docType, fechaInicio, fechaFin)

\* getAllSales: the kinds in `falla` are those whose request (or the
\* authentication before it) threw; the catch logs it and yields no documents
RECURSIVE AllSalesFrom(_, _, _, _)
AllSalesFrom(types, fechaInicio, fechaFin, falla) ==
    IF types = <<>> THEN <<>>
    ELSE (IF Head(types) \in falla THEN <<>>
          ELSE getDocumentsByType(Head(types), fechaInicio, fechaFin))
         \o AllSalesFrom(Tail(types), fechaInicio, fechaFin, falla)
getAllSales(fechaInicio, fechaFin, falla) ==
    AllSalesFrom(DOCUMENT_TYPES, fechaInicio, fechaFin, falla)

\* a Map<sku, ...> is a sequence of entries in insertion order
MapHas(map, sku) == \E i \in 1..Len(map) : map[i].sku = sku
MapIndex(map, sku) == CHOOSE i \in 1..Len(map) : map[i].sku = sku

\* one product of a document folded into the map
AggProduct(map, product) ==
    LET m1 == IF MapHas(map, product.sku) THEN map
              ELSE Append(map, [sku |-> product.sku, cantidad |-> 0, montoNeto |-> 0])
        i == MapIndex(m1, product.sku)
    IN [m1 EXCEPT ![i].cantidad = @ + product.cantidad,
                  ![i].montoNeto = @ + product.montoNeto]

RECURSIVE AggProducts(_, _)
AggProducts(map, products) ==
    IF products = <<>> THEN map
    ELSE AggProducts(AggProduct(map, Head(products)), Tail(products))

RECURSIVE AggDocuments(_, _)
AggDocuments(map, documents) ==
    IF documents = <<>> THEN map
    ELSE AggDocuments(AggProducts(map, extractProductsFromDocument(Head(documents))),
                      Tail(documents))

aggregateSalesByProduct(documents) == AggDocuments(<<>>, documents)

\* getCurrentStock: Map<sku, stock> of the snapshot, a later entry of a SKU
\* overwriting an earlier one
RECURSIVE StockMapFrom(_, _)
StockMapFrom(map, stockData) ==
    IF stockData = <<>> THEN map
    ELSE LET item == Head(stockData)
             sku == OrS(item.cod_prod, item.codigo_prod)
             stock == ParseFloat(OrV(item.saldo, OrV(item.stock, Num(0))))
             m1 == IF sku = "" THEN map
                   ELSE IF MapHas(map, sku)
                   THEN [map EXCEPT ![MapIndex(map, sku)].stock = stock]
                   ELSE Append(map, [sku |-> sku, stock |-> stock])
         IN StockMapFrom(m1, Tail(stockData))
getCurrentStock(stockData) == StockMapFrom(<<>>, stockData)
\* stockMap.get(sku) || 0
StockGet(stockMap, sku) ==
    IF MapHas(stockMap, sku) THEN stockMap[MapIndex(stockMap, sku)].stock ELSE 0

(***************************************************************************)
(* Monthly sync engine.                                                    *)
(***************************************************************************)
Placeholder == "Producto nuevo (auto-creado)"

\* AUTOINCREMENT primary key of productos (rows are never deleted)
NextId(productos) ==
    IF productos = {} THEN 1
    ELSE 1 + (CHOOSE i \in {q.id : q \in productos} : \A q \in productos : q.id <= i)

FindBySku(productos, sku) == {q \in productos : q.sku = sku}

\* upsertMonthlySale that adds whatever the flag says
upsertMonthlySale_AlwaysAccumulate(vh, productoId, ano, mes, cantidad, montoNeto, accumulate) ==
    LET existing == {h \in vh : SameKey(h, productoId, ano, mes)}
    IN IF existing # {}
       THEN LET e == CHOOSE h \in existing : TRUE
            IN (vh \ {e}) \cup {[e EXCEPT !.cantidadVendida = @ + cantidad,
                                          !.montoNeto = @ + montoNeto]}
       ELSE vh \cup {[productoId |-> productoId, ano |-> ano, mes |-> mes,
                      cantidadVendida |-> cantidad, montoNeto |-> montoNeto]}

\* upsertMonthlySale that replaces whatever the flag says
upsertMonthlySale_NeverAccumulate(vh, productoId, ano, mes, cantidad, montoNeto, accumulate) ==
    {h \in vh : ~SameKey(h, productoId, ano, mes)}
    \cup {[productoId |-> productoId, ano |-> ano, mes |-> mes,
           cantidadVendida |-> cantidad, montoNeto |-> montoNeto]}

\* upsertMonthlySale: find the row of the key; update it (adding when
\* accumulate, else replacing) or create it
upsertMonthlySale(vh, productoId, ano, mes, cantidad, montoNeto, accumulate) ==
    LET existing == {h \in vh : SameKey(h, productoId, ano, mes)}
    IN IF existing # {}
       THEN LET e == CHOOSE h \in existing : TRUE
            IN IF accumulate
               THEN (vh \ {e}) \cup {[e EXCEPT !.cantidadVendida = @ + cantidad,
                                             !.montoNeto = @ + montoNeto]}
               ELSE (vh \ {e}) \cup {[e EXCEPT !.cantidadVendida = cantidad,
                                             !.montoNeto = montoNeto]}
       ELSE vh \cup {[productoId |-> productoId, ano |-> ano, mes |-> mes,
                      cantidadVendida |-> cantidad, montoNeto |-> montoNeto]}

\* the loop of syncDaySales over the aggregated sales
RECURSIVE SyncDayLoop(_, _, _, _)
SyncDayLoop(sales, db, year, month) ==
    IF sales = <<>> THEN db
    ELSE LET data == Head(sales)
             found == FindBySku(db.producto, data.sku)
         IN IF found = {}
            THEN LET newProduct == ProductoRow(NextId(db.producto), data.sku, Placeholder)
                 IN SyncDayLoop(Tail(sales),
                        [db EXCEPT !.producto = @ \cup {newProduct},
                                   !.ventaHistorica = upsertMonthlySale(@, newProduct.id,
                                        year, month, data.cantidad, data.montoNeto, FALSE)],
                        year, month)
            ELSE SyncDayLoop(Tail(sales),
                        [db EXCEPT !.ventaHistorica = upsertMonthlySale(@,
                                        (CHOOSE q \in found : TRUE).id,
                                        year, month, data.cantidad, data.montoNeto, TRUE)],
                        year, month)

\* syncDaySales(date): with no sales it returns early
syncDaySales(db, date, falla) ==
    SyncDayLoop(aggregateSalesByProduct(getAllSales(date, date, falla)), db,
                date.ano, date.mes)

\* the loop of syncFullMonth
RECURSIVE SyncMonthLoop(_, _, _, _)
SyncMonthLoop(sales, db, year, month) ==
    IF sales = <<>> THEN db
    ELSE LET data == Head(sales)
             found == FindBySku(db.producto, data.sku)
             created == ProductoRow(NextId(db.producto), data.sku, Placeholder)
             prod == IF found = {} THEN created ELSE CHOOSE q \in found : TRUE
         IN SyncMonthLoop(Tail(sales),
                [db EXCEPT !.producto = @ \cup {prod},
                           !.ventaHistorica = upsertMonthlySale(@, prod.id, year, month,
                                data.cantidad, data.montoNeto, FALSE)],
                year, month)

\* the model's months have DiasMes days
DiasMes == 2
FirstDay(year, month) == [ano |-> year, mes |-> month, dia |-> 1]
LastDay(year, month) == [ano |-> year, mes |-> month, dia |-> DiasMes]

\* syncFullMonth(year, month), through getMonthlySales
syncFullMonth(db, year, month, falla) ==
    SyncMonthLoop(aggregateSalesByProduct(
                      getAllSales(FirstDay(year, month), LastDay(year, month), falla)),
                  db, year, month)

\* first loop of syncCurrentMonthData: one row per sold SKU of a known product
RECURSIVE CurrentSalesLoop(_, _, _, _)
CurrentSalesLoop(monthlySales, productos, stockMap, va) ==
    IF monthlySales = <<>> THEN va
    ELSE LET data == Head(monthlySales)
             found == FindBySku(productos, data.sku)
         IN IF found = {}
            THEN CurrentSalesLoop(Tail(monthlySales), productos, stockMap, va)
            ELSE CurrentSalesLoop(Tail(monthlySales), productos, stockMap,
                     va \cup {ActualRow((CHOOSE q \in found : TRUE).id, data.cantidad,
                                        data.montoNeto, StockGet(stockMap, data.sku))})

\* second loop: products with stock and no sales this month
RECURSIVE CurrentStockLoop(_, _, _, _)
CurrentStockLoop(stockMap, monthlySales, productos, va) ==
    IF stockMap = <<>> THEN va
    ELSE LET e == Head(stockMap)
             found == FindBySku(productos, e.sku)
         IN IF MapHas(monthlySales, e.sku) \/ found = {}
            THEN CurrentStockLoop(Tail(stockMap), monthlySales, productos, va)
            ELSE CurrentStockLoop(Tail(stockMap), monthlySales, productos,
                     va \cup {ActualRow((CHOOSE q \in found : TRUE).id, 0, 0, e.stock)})

\* the sales range of syncCurrentMonthData: the 1st of the month to yesterday
\* (empty on the 1st, when startDate > yesterday)
CurrentDesde == FirstDay(hoy.ano, hoy.mes)
\* an end of range that takes today in
CurrentHasta_IncludesToday == hoy

CurrentHasta == [ano |-> hoy.ano, mes |-> hoy.mes, dia |-> hoy.dia - 1]

\* a rebuild without the deleteMany
syncCurrentMonthData_KeepsRows(db, falla, stockOk) ==
    LET monthlySales == IF hoy.dia > 1
                        THEN aggregateSalesByProduct(
                                 getAllSales(CurrentDesde, CurrentHasta, falla))
                        ELSE <<>>
        stockMap == getCurrentStock(erpStock)
        va1 == CurrentSalesLoop(monthlySales, db.producto, stockMap, db.ventaActual)
        va2 == CurrentStockLoop(stockMap, monthlySales, db.producto, va1)
    IN IF stockOk THEN [db EXCEPT !.ventaActual = va2]
       ELSE [db EXCEPT !.ventaActual = {}]

\* syncCurrentMonthData: delete every row, then rebuild; when the stock
\* request throws, the function throws with the table left empty
syncCurrentMonthData(db, falla, stockOk) ==
    LET monthlySales == IF hoy.dia > 1
                        THEN aggregateSalesByProduct(
                                 getAllSales(CurrentDesde, CurrentHasta, falla))
                        ELSE <<>>
        stockMap == getCurrentStock(erpStock)
        va1 == CurrentSalesLoop(monthlySales, db.producto, stockMap, {})
        va2 == CurrentStockLoop(stockMap, monthlySales, db.producto, va1)
    IN IF stockOk THEN [db EXCEPT !.ventaActual = va2]
       ELSE [db EXCEPT !.ventaActual = {}]

\* ---- actions
FallaSets == SUBSET DocTypeSet

SyncBase == [ano |-> 2025, mes |-> 3]
SyncDates == { FirstDay(SyncBase.ano, SyncBase.mes),
               LastDay(SyncBase.ano, SyncBase.mes - 1) }
SyncMonths == { SyncBase, [SyncBase EXCEPT !.mes = @ - 1] }

SyncDaySales ==
    \E date \in SyncDates, falla \in FallaSets :
        /\ SetDb(syncDaySales(Db, date, falla))
        /\ Record([name |-> "syncDaySales", n |-> 0, rep |-> 0, desde |-> date,
                   hasta |-> date, completo |-> falla = {}, todas |-> falla = DocTypeSet, ok |-> TRUE])
        /\ UNCHANGED <<hoy, erpDocs, erpStock, erpProductos, procs>>

SyncFullMonth ==
    \E ym \in SyncMonths, falla \in FallaSets :
        /\ SetDb(syncFullMonth(Db, ym.ano, ym.mes, falla))
        /\ Record([name |-> "syncFullMonth", n |-> 0, rep |-> 0,
                   desde |-> FirstDay(ym.ano, ym.mes), hasta |-> LastDay(ym.ano, ym.mes),
                   completo |-> falla = {}, todas |-> falla = DocTypeSet, ok |-> TRUE])
        /\ UNCHANGED <<hoy, erpDocs, erpStock, erpProductos, procs>>

SyncCurrentMonthData ==
    \E falla \in FallaSets, stockOk \in BOOLEAN :
        /\ SetDb(syncCurrentMonthData(Db, falla, stockOk))
        /\ Record([name |-> "syncCurrentMonthData", n |-> 0, rep |-> 0,
                   desde |-> CurrentDesde, hasta |-> CurrentHasta,
                   completo |-> falla = {}, todas |-> falla = DocTypeSet, ok |-> stockOk])
        /\ UNCHANGED <<hoy, erpDocs, erpStock, erpProductos, procs>>

\* ---- bounded ERP data and initial databases
Line(skuField, sku, qty, price) ==
    WithQty(WithSku([EmptyItem EXCEPT !.precio_unitario = Num(price)], skuField, sku),
            "cantidad", Num(qty))
ErpDoc(tipo, fecha, items) ==
    [tipo |-> tipo, fecha |-> fecha, doc |-> [EmptyDoc EXCEPT !.detalles = Arr(items)]]

DocA == ErpDoc("FAVE", FirstDay(SyncBase.ano, SyncBase.mes), <<Line("codigo", "A", 2, 5)>>)
DocB == ErpDoc("BOVE", FirstDay(SyncBase.ano, SyncBase.mes),
               <<Line("cod_prod", "B", 1, 5), Line("codigo", "A", 1, 5)>>)
DocN == ErpDoc("NCVE", FirstDay(SyncBase.ano, SyncBase.mes), <<Line("codigo", "A", 0 - 1, 5)>>)
DocP == ErpDoc("FAVE", LastDay(SyncBase.ano, SyncBase.mes - 1), <<Line("codigo", "B", 3, 5)>>)
SampleErpDocs == { <<DocA, DocB, DocN, DocP>>, <<DocB>>, <<DocN, DocP>>, <<>> }

EmptyStockEntry ==
    [cod_prod |-> "", codigo_prod |-> "", saldo |-> Num(0), stock |-> Num(0),
     bodega |-> <<>>]
StockAGeneral == [EmptyStockEntry EXCEPT !.cod_prod = "A", !.saldo = Num(5),
                                         !.bodega = NameGeneral]
StockATemporal == [EmptyStockEntry EXCEPT !.cod_prod = "A", !.saldo = Num(7),
                                          !.bodega = NameTemporal]
StockB == [EmptyStockEntry EXCEPT !.codigo_prod = "B", !.stock = Num(2)]
SampleErpStock == { <<StockAGeneral, StockATemporal, StockB>>,
                    <<StockATemporal, StockAGeneral>>, <<StockB>>, <<>> }

SampleProductos ==
    { {}, {ProductoRow(1, "A", "Producto A")},
      {ProductoRow(1, "A", "Producto A"), ProductoRow(2, "B", "Producto B")} }

InitSyncDb ==
    /\ erpDocs \in SampleErpDocs
    /\ producto \in SampleProductos
    /\ ventaHistorica \in { {} } \cup
         { {[productoId |-> 1, ano |-> SyncBase.ano, mes |-> SyncBase.mes,
             cantidadVendida |-> 10, montoNeto |-> 50]} : x \in producto }
    /\ ventaActual = {}
    /\ pedido = {}
    /\ erpProductos = <<>>
    /\ procs = <<>>
    /\ lastOp = NoOp
    /\ pre = NoDb
    /\ pre0 = NoDb
    /\ AuthIdle /\ FnIdle

\* historical sync alone: single-day and full-month
InitSyncHist ==
    /\ hoy = [ano |-> SyncBase.ano, mes |-> SyncBase.mes, dia |-> DiasMes]
    /\ erpStock = <<>>
    /\ InitSyncDb
NextSyncHist == SyncDaySales \/ SyncFullMonth
SpecSyncHist == InitSyncHist /\ [][NextSyncHist]_vars

\* every sync mode
InitSync ==
    /\ hoy \in { [ano |-> SyncBase.ano, mes |-> SyncBase.mes, dia |-> d] : d \in 1..DiasMes }
    /\ erpStock \in SampleErpStock
    /\ InitSyncDb
NextSync == SyncDaySales \/ SyncFullMonth \/ SyncCurrentMonthData
SpecSync == InitSync /\ [][NextSync]_vars

\* ---- what the ERP holds for a SKU over a range of days, read off the
\* documents line by line
RECURSIVE LinesQty(_, _)
LinesQty(items, sku) ==
    IF items = <<>> THEN 0
    ELSE (IF ClaimSku(Head(items)) = sku THEN ClaimQty(Head(items)) ELSE 0)
         + LinesQty(Tail(items), sku)
RECURSIVE LinesAmount(_, _)
LinesAmount(items, sku) ==
    IF items = <<>> THEN 0
    ELSE (IF ClaimSku(Head(items)) = sku
          THEN Head(items).precio_unitario.n * ClaimQty(Head(items)) ELSE 0)
         + LinesAmount(Tail(items), sku)
DocsInRange(desde, hasta) ==
    {i \in 1..Len(erpDocs) : InRange(erpDocs[i], desde, hasta)}
RECURSIVE SumQty(_, _)
SumQty(idx, sku) ==
    IF idx = {} THEN 0
    ELSE LET i == CHOOSE j \in idx : TRUE
         IN LinesQty(ClaimLines(erpDocs[i].doc), sku) + SumQty(idx \ {i}, sku)
RECURSIVE SumAmount(_, _)
SumAmount(idx, sku) ==
    IF idx = {} THEN 0
    ELSE LET i == CHOOSE j \in idx : TRUE
         IN LinesAmount(ClaimLines(erpDocs[i].doc), sku) + SumAmount(idx \ {i}, sku)
SoldQty(sku, desde, hasta) == SumQty(DocsInRange(desde, hasta), sku)
SoldAmount(sku, desde, hasta) == SumAmount(DocsInRange(desde, hasta), sku)
RangeSkus(desde, hasta) ==
    {sku \in {"A", "B"} :
        \E i \in DocsInRange(desde, hasta) :
            \E k \in 1..Len(ClaimLines(erpDocs[i].doc)) :
                /\ ClaimSku(ClaimLines(erpDocs[i].doc)[k]) = sku
                /\ ClaimQty(ClaimLines(erpDocs[i].doc)[k]) # 0}

\* the quantity a database holds for a SKU in a month (0 with no product or row)
HistQty(db, sku, ano, mes) ==
    LET rows == {h \in db.ventaHistorica :
                    /\ h.ano = ano /\ h.mes = mes
                    /\ \E q \in db.producto : q.sku = sku /\ q.id = h.productoId}
    IN IF rows = {} THEN 0 ELSE (CHOOSE h \in rows : TRUE).cantidadVendida

SyncRan(name) == lastOp.name = name /\ lastOp.completo /\ lastOp.ok

\* C3: a second syncFullMonth for the same (year, month) against the same ERP
\* data (every document kind answered in both runs) leaves the historical
\* rows and the product set exactly as the first run left them.
C3_FullMonthIdempotent ==
    (SyncRan("syncFullMonth") /\ lastOp.rep >= 2)
        => /\ ventaHistorica = pre.ventaHistorica
           /\ producto = pre.producto

\* the second of two runs, the first of which created a product and replaced
\* a row
C3_Witness ==
    /\ SyncRan("syncFullMonth") /\ lastOp.rep = 2
    /\ pre.ventaHistorica # pre0.ventaHistorica
    /\ pre.producto # pre0.producto
    /\ \E h \in pre0.ventaHistorica : h \notin pre.ventaHistorica
    /\ ventaHistorica = pre.ventaHistorica

\* C4: every run of syncDaySales for a day raises the month's historical
\* quantity of each SKU sold that day by the day's quantity q, so the second of
\* two runs leaves it at prior + 2q, also for a SKU whose product the first run
\* created.
C4_SingleDayAccumulates ==
    SyncRan("syncDaySales") =>
        \A sku \in RangeSkus(lastOp.desde, lastOp.hasta) :
            LET q == SoldQty(sku, lastOp.desde, lastOp.hasta)
                y == lastOp.desde.ano
                m == lastOp.desde.mes
            IN /\ HistQty(Db, sku, y, m) = HistQty(pre, sku, y, m) + q
               /\ lastOp.rep = 2 => HistQty(Db, sku, y, m) = HistQty(pre0, sku, y, m) + 2 * q

\* two runs for a day on which a SKU without product and a SKU with a prior
\* row were sold
C4_Witness ==
    /\ SyncRan("syncDaySales") /\ lastOp.rep = 2
    /\ \E sku \in RangeSkus(lastOp.desde, lastOp.hasta) :
          /\ FindBySku(pre0.producto, sku) = {}
          /\ SoldQty(sku, lastOp.desde, lastOp.hasta) > 0
          /\ HistQty(Db, sku, lastOp.desde.ano, lastOp.desde.mes)
                = 2 * SoldQty(sku, lastOp.desde, lastOp.hasta)
    /\ \E sku \in RangeSkus(lastOp.desde, lastOp.hasta) :
          /\ HistQty(pre0, sku, lastOp.desde.ano, lastOp.desde.mes) > 0
          /\ SoldQty(sku, lastOp.desde, lastOp.hasta) > 0

\* C6: after a sync of any mode, every SKU sold in the synced range that had
\* no product has exactly one product row, with the placeholder description,
\* and the range's quantity and amount stored against it.
C6_UnknownSkuAutoCreated ==
    \A name \in {"syncDaySales", "syncFullMonth", "syncCurrentMonthData"} :
        SyncRan(name) =>
            \A sku \in RangeSkus(lastOp.desde, lastOp.hasta) :
                FindBySku(pre.producto, sku) = {} =>
                    /\ Cardinality(FindBySku(producto, sku)) = 1
                    /\ \A q \in FindBySku(producto, sku) :
                          /\ q.descripcion = Placeholder
                          /\ \E r \in (IF name = "syncCurrentMonthData"
                                       THEN ventaActual
                                       ELSE {h \in ventaHistorica :
                                                /\ h.ano = lastOp.desde.ano
                                                /\ h.mes = lastOp.desde.mes}) :
                                /\ r.productoId = q.id
                                /\ r.cantidadVendida = SoldQty(sku, lastOp.desde, lastOp.hasta)
                                /\ r.montoNeto = SoldAmount(sku, lastOp.desde, lastOp.hasta)

\* the same for the two historical modes alone
C6_HistoricalModesAutoCreate ==
    SyncRan("syncCurrentMonthData") \/ C6_UnknownSkuAutoCreated

\* ---- the General-warehouse stock of a SKU in the snapshot
IsTemporaryEntry(entry) == entry.bodega \in NamesWithTemporal
RECURSIVE WithoutTemporary(_)
WithoutTemporary(stockData) ==
    IF stockData = <<>> THEN <<>>
    ELSE (IF IsTemporaryEntry(Head(stockData)) THEN <<>> ELSE <<Head(stockData)>>)
         \o WithoutTemporary(Tail(stockData))
EntrySku(entry) == OrS(entry.cod_prod, entry.codigo_prod)
EntryStock(entry) == IF entry.saldo # Num(0) THEN entry.saldo.n ELSE entry.stock.n
GeneralStocks(sku) ==
    {EntryStock(WithoutTemporary(erpStock)[i]) :
        i \in {j \in 1..Len(WithoutTemporary(erpStock)) :
                  EntrySku(WithoutTemporary(erpStock)[j]) = sku}}

\* C10: the stock a current-month sync stores for a product is a stock of one
\* of its General-warehouse entries (0 when it has none); no Temporary entry
\* contributes to it or overwrites it.
C10_GeneralStockOnly ==
    SyncRan("syncCurrentMonthData") =>
        \A r \in ventaActual : \A q \in producto :
            q.id = r.productoId =>
                r.stockActual \in (IF GeneralStocks(q.sku) = {} THEN {0}
                                   ELSE GeneralStocks(q.sku))

(***************************************************************************)
(* Dashboard aggregation.  Quantities are integers; the average is the     *)
(* fraction totalCantidad / N, so a rounded value is computed exactly.     *)
(***************************************************************************)
\* Math.round(num / den) for den > 0: the nearest integer, a tie going up
MathRound_Clamped(num, den) ==
    IF (2 * num + den) \div (2 * den) < 0 THEN 0 ELSE (2 * num + den) \div (2 * den)
MathRound(num, den) == (2 * num + den) \div (2 * den)

\* parseFloat((num / den).toFixed(2)), in hundredths
ToFixed2(num, den) == MathRound(100 * num, den)

\* a window that ends with the current month
generateMonthsArray_IncludesCurrent(mesesNum) ==
    [j \in 1..mesesNum |-> subMonths(getMesActual, mesesNum - j)]

\* generateMonthsArray(mesesNum): from the oldest month to the one before the
\* current month
generateMonthsArray(mesesNum) ==
    [j \in 1..mesesNum |-> subMonths(getMesActual, mesesNum + 1 - j)]

\* filtroFecha: before the current month, from the start month on
filtroFecha(row, mesesNum) ==
    LET mesActual == getMesActual
        inicio == subMonths(mesActual, mesesNum)
    IN /\ (row.ano < mesActual.ano \/ (row.ano = mesActual.ano /\ row.mes < mesActual.mes))
       /\ (row.ano > inicio.ano \/ (row.ano = inicio.ano /\ row.mes >= inicio.mes))

\* filtroMarca: sku startsWith marca.toUpperCase(); the model's SKUs and
\* brands are one character long
ToUpperMarca(marca) == IF marca = "a" THEN "A" ELSE IF marca = "b" THEN "B" ELSE marca
filtroMarca(p, marca) == marca = "" \/ p.sku = ToUpperMarca(marca)

\* orderBy sku asc
SkuOrder == <<"A", "B">>
RECURSIVE ProductosOrdenados(_, _)
ProductosOrdenados(skus, marca) ==
    IF skus = <<>> THEN <<>>
    ELSE LET found == {p \in producto : p.sku = Head(skus) /\ filtroMarca(p, marca)}
         IN (IF found = {} THEN <<>> ELSE <<CHOOSE p \in found : TRUE>>)
            \o ProductosOrdenados(Tail(skus), marca)

\* ventasPorMes[`${ano}-${mes}`] || 0
VentaDelMes(ventasHistoricas, m) ==
    LET rows == {h \in ventasHistoricas : h.ano = m.ano /\ h.mes = m.mes}
    IN IF rows = {} THEN 0 ELSE (CHOOSE h \in rows : TRUE).cantidadVendida

RECURSIVE SumCantidad(_)
SumCantidad(ventasMeses) ==
    IF ventasMeses = <<>> THEN 0
    ELSE Head(ventasMeses).cantidad + SumCantidad(Tail(ventasMeses))

Null == [null |-> TRUE, n |-> 0]

\* a reading with ||, which takes a stored 0 for a missing order
PedidoCantidad_ZeroIsMissing(pedidos) ==
    IF pedidos = {} \/ (CHOOSE o \in pedidos : TRUE).cantidad = 0 THEN Null
    ELSE [null |-> FALSE, n |-> (CHOOSE o \in pedidos : TRUE).cantidad]

\* pedidoActual?.cantidad ?? null, pedidoActual being producto.pedidos?.[0]
PedidoCantidad(pedidos) ==
    IF pedidos = {} THEN Null
    ELSE [null |-> FALSE, n |-> (CHOOSE o \in pedidos : TRUE).cantidad]

\* the row getDashboard builds for one product
DashboardRow(p, mesesNum, ventasHoyMap) ==
    LET ventasHistoricas == {h \in ventaHistorica :
                                h.productoId = p.id /\ filtroFecha(h, mesesNum)}
        ventasActuales == {v \in ventaActual : v.productoId = p.id}
        pedidos == {o \in pedido : /\ o.productoId = p.id
                                   /\ o.ano = getMesActual.ano
                                   /\ o.mes = getMesActual.mes}
        cantidadDB == IF ventasActuales = {} THEN 0
                      ELSE (CHOOSE v \in ventasActuales : TRUE).cantidadVendida
        stockActual == IF ventasActuales = {} THEN 0
                       ELSE (CHOOSE v \in ventasActuales : TRUE).stockActual
        cantidadMesActual ==
            IF MapHas(ventasHoyMap, p.sku)
            THEN cantidadDB + ventasHoyMap[MapIndex(ventasHoyMap, p.sku)].cantidad
            ELSE cantidadDB
        monthsArray == generateMonthsArray(mesesNum)
        ventasMeses == [j \in 1..mesesNum |->
                           [ano |-> monthsArray[j].ano, mes |-> monthsArray[j].mes,
                            cantidad |-> VentaDelMes(ventasHistoricas, monthsArray[j])]]
        totalCantidad == SumCantidad(ventasMeses)
        n == Len(ventasMeses)
    IN [producto |-> p,
        ventasMeses |-> ventasMeses,
        promedio |-> ToFixed2(totalCantidad, n),
        mesActual |-> [ano |-> getMesActual.ano, mes |-> getMesActual.mes,
                       ventaActual |-> cantidadMesActual, stockActual |-> stockActual],
        compraSugerida |-> MathRound(totalCantidad - n * (stockActual + cantidadMesActual), n),
        compraRealizar |-> PedidoCantidad(pedidos)]

MesesValidos == {3, 6, 12}

\* getDashboard(req, res): the response
getDashboard(meses, marca, falla) ==
    IF meses \notin MesesValidos
    THEN [name |-> "getDashboard", status |-> 400, meses |-> meses, completo |-> FALSE,
          rows |-> <<>>]
    ELSE LET ventasHoyMap == aggregateSalesByProduct(getAllSales(hoy, hoy, falla))
             productosDB == ProductosOrdenados(SkuOrder, marca)
         IN [name |-> "getDashboard", status |-> 200, meses |-> meses,
             completo |-> falla = {},
             rows |-> [i \in 1..Len(productosDB) |->
                          DashboardRow(productosDB[i], meses, ventasHoyMap)]]

MesesInputs == MesesValidos \cup {4}
MarcaInputs == {"", "a", "B"}

GetDashboard ==
    \E meses \in MesesInputs, marca \in MarcaInputs, falla \in FallaSets :
        /\ fnOut' = getDashboard(meses, marca, falla)
        /\ UNCHANGED <<fnIn, authVars, dbVars>>

\* ---- bounded databases the dashboard reads
DashHoy == FirstDay(SyncBase.ano, SyncBase.mes)
DashProductos == {ProductoRow(1, "A", "Producto A"), ProductoRow(2, "B", "Producto B")}
DashHistoricas ==
    { {HistRow(1, DashHoy, k, 100, 500) : k \in 1..3}
        \cup {HistRow(2, DashHoy, k, 10, 50) : k \in 1..3},
      {HistRow(1, DashHoy, 1, 2, 10), HistRow(2, DashHoy, 2, 3, 15),
       HistRow(2, DashHoy, 7, 5, 25), HistRow(1, DashHoy, 0, 50, 250)},
      {HistRow(1, DashHoy, 1, 1, 5), HistRow(1, DashHoy, 4, 6, 30),
       HistRow(1, DashHoy, 13, 9, 45)},
      {} }
DashActuales ==
    { {ActualRow(1, 10, 50, 20), ActualRow(2, 0, 0, 50)},
      {ActualRow(1, 0, 0, 1)},
      {ActualRow(2, 1, 5, 0)},
      {} }
DashPedidos == { {}, {PedidoRow(1, DashHoy, 0, 7)},
                 {PedidoRow(1, DashHoy, 0, 0), PedidoRow(2, DashHoy, 1, 9)} }

InitDash ==
    /\ hoy = DashHoy
    /\ producto = DashProductos
    /\ ventaHistorica \in DashHistoricas
    /\ ventaActual \in DashActuales
    /\ pedido \in DashPedidos
    /\ erpDocs \in SampleErpDocs
    /\ erpStock = <<>>
    /\ erpProductos = <<>>
    /\ procs = <<>>
    /\ lastOp = NoOp
    /\ pre = NoDb
    /\ pre0 = NoDb
    /\ AuthIdle /\ FnIdle
NextDash == GetDashboard
SpecDash == InitDash /\ [][NextDash]_vars

\* ---- what the claim says of one row, read off the tables
RowN == fnOut.meses
RECURSIVE SumRows(_)
SumRows(rows) ==
    IF rows = {} THEN 0
    ELSE LET h == CHOOSE x \in rows : TRUE
         IN h.cantidadVendida + SumRows(rows \ {h})
\* the sum of the product's quantities over the N months before the current one
WindowTotal(p) ==
    SumRows({h \in ventaHistorica : h.productoId = p.id /\ MonthsAgo(h) \in 1..RowN})
RowActual(p) == {v \in ventaActual : v.productoId = p.id}
\* N times (stockOnHand + currentMonthSold) of a row
RowHeld(r) == RowN * (r.mesActual.stockActual + r.mesActual.ventaActual)
\* a row reports the persisted stock and the persisted plus live quantity, a
\* missing CurrentMonthSale row counting as stock 0 and sold 0
RowReadsCurrentMonth(r) ==
    LET hoyQty == SoldQty(r.producto.sku, hoy, hoy)
    IN IF RowActual(r.producto) = {}
       THEN /\ r.mesActual.stockActual = 0
            /\ fnOut.completo => r.mesActual.ventaActual = hoyQty
       ELSE \A v \in RowActual(r.producto) :
               /\ r.mesActual.stockActual = v.stockActual
               /\ fnOut.completo => r.mesActual.ventaActual = v.cantidadVendida + hoyQty
\* compraSugerida is the integer nearest to average - stock - sold (a tie going up)
RowRounded(r) ==
    LET x == WindowTotal(r.producto) - RowHeld(r)
    IN /\ 2 * RowN * r.compraSugerida <= 2 * x + RowN
       /\ 2 * x + RowN < 2 * RowN * (r.compraSugerida + 1)
DashServed == fnOut.name = "getDashboard" /\ fnOut.status = 200

\* C7: every dashboard row has suggestedPurchase = round(average - stockOnHand
\* - currentMonthSold), a missing CurrentMonthSale row counting as stock 0 and
\* sold 0; it is never clamped to zero, and it is negative exactly when stock
\* plus current-month sales exceed the average by more than one half.
C7_SuggestedPurchase ==
    DashServed =>
        \A i \in 1..Len(fnOut.rows) :
            LET r == fnOut.rows[i]
            IN /\ RowReadsCurrentMonth(r)
               /\ RowRounded(r)
               /\ r.compraSugerida < 0
                     <=> 2 * (RowHeld(r) - WindowTotal(r.producto)) > RowN

\* C7 as stated: the value is negative whenever stock plus current-month
\* sales exceed the average.
C7_NegativeWheneverExceeds ==
    DashServed =>
        \A i \in 1..Len(fnOut.rows) :
            LET r == fnOut.rows[i]
            IN /\ RowReadsCurrentMonth(r)
               /\ RowRounded(r)
               /\ RowHeld(r) > WindowTotal(r.producto) => r.compraSugerida < 0

\* the two worked examples in one response: 100, 20, 10 gives 70 and
\* 10, 50, 0 gives -40
C7_Witness ==
    /\ DashServed /\ RowN = 3 /\ Len(fnOut.rows) = 2
    /\ WindowTotal(fnOut.rows[1].producto) = 300
    /\ fnOut.rows[1].mesActual.stockActual = 20
    /\ fnOut.rows[1].mesActual.ventaActual = 10
    /\ fnOut.rows[1].compraSugerida = 70
    /\ WindowTotal(fnOut.rows[2].producto) = 30
    /\ fnOut.rows[2].mesActual.stockActual = 50
    /\ fnOut.rows[2].mesActual.ventaActual = 0
    /\ fnOut.rows[2].compraSugerida = 0 - 40

\* ---- C11
\* a CurrentMonthSale row of before the rotation has been transferred and reset
RowRotated(r) ==
    /\ HistAt(ventaHistorica, r.productoId, getMesActual) =
         {[productoId |-> r.productoId, ano |-> hoy.ano, mes |-> hoy.mes,
           cantidadVendida |-> r.cantidadVendida, montoNeto |-> r.montoNeto]}
    /\ RowsOf(ventaActual, r.productoId) = {RotReset(r)}
\* the rotation left the row and the product's historical rows as they were
RowUntouched(r) ==
    /\ r \in ventaActual
    /\ {h \in ventaHistorica : h.productoId = r.productoId}
         = {h \in pre.ventaHistorica : h.productoId = r.productoId}

\* C11: after a rotation, either every CurrentMonthSale row has been
\* transferred to HistoricalMonthlySale and reset, or none has been touched.
C11_RotationAllOrNothing ==
    lastOp.name = "rotate" =>
        \/ \A r \in pre.ventaActual : RowRotated(r)
        \/ \A r \in pre.ventaActual : RowUntouched(r)

(***************************************************************************)
(* Daily schedule: catalogue sync, the cron run of syncYesterday, and the  *)
(* calendar moving on day by day.                                          *)
(***************************************************************************)
\* the loop of syncNewProducts over the catalogue
RECURSIVE NewProductsLoop(_, _)
NewProductsLoop(erpProducts, productos) ==
    IF erpProducts = <<>> THEN productos
    ELSE LET product == Head(erpProducts)
             sku == product.codigo_prod
             descripcion == OrS(product.nombre, product.descripcion)
             familia == product.familia
             existing == FindBySku(productos, sku)
         IN IF sku = "" THEN NewProductsLoop(Tail(erpProducts), productos)
            ELSE IF existing = {}
            THEN NewProductsLoop(Tail(erpProducts),
                     productos \cup {[id |-> NextId(productos), sku |-> sku,
                                      descripcion |-> descripcion, familia |-> familia]})
            ELSE LET e == CHOOSE q \in existing : TRUE
                 IN IF e.descripcion # descripcion \/ e.familia # familia
                    THEN NewProductsLoop(Tail(erpProducts),
                             (productos \ {e}) \cup {[e EXCEPT !.descripcion = descripcion,
                                                               !.familia = familia]})
                    ELSE NewProductsLoop(Tail(erpProducts), productos)

\* a product sync that also drops the products the catalogue does not list
syncNewProducts_DropsAbsent(db) ==
    [db EXCEPT !.producto =
         {q \in NewProductsLoop(erpProductos, @) :
              \E i \in 1..Len(erpProductos) : erpProductos[i].codigo_prod = q.sku}]

\* syncNewProducts(), the catalogue request having answered
syncNewProducts(db) == [db EXCEPT !.producto = NewProductsLoop(erpProductos, @)]

\* subDays(today, 1)
Yesterday ==
    IF hoy.dia > 1 THEN [hoy EXCEPT !.dia = @ - 1]
    ELSE LastDay(subMonths(getMesActual, 1).ano, subMonths(getMesActual, 1).mes)

\* the requests of a scheduled run all answer, or one kind fails, or all fail
ScheduleFallas == { {}, {"FAVE"}, DocTypeSet }

\* syncYesterday(): catalogue, yesterday's sales, current-month data; the
\* first step that throws ends the process, what was written before it staying
SyncYesterday ==
    \E catalogOk \in BOOLEAN, fallaDia \in ScheduleFallas, fallaMes \in ScheduleFallas,
       stockOk \in BOOLEAN :
        LET db1 == syncNewProducts(Db)
            db2 == syncDaySales(db1, Yesterday, fallaDia)
            db3 == syncCurrentMonthData(db2, fallaMes, stockOk)
        IN /\ SetDb(IF catalogOk THEN db3 ELSE Db)
           /\ Record([name |-> "syncYesterday", n |-> 0, rep |-> 0,
                      desde |-> Yesterday, hasta |-> Yesterday,
                      completo |-> fallaDia = {} /\ fallaMes = {},
                      ok |-> catalogOk /\ stockOk])
           /\ UNCHANGED <<hoy, erpDocs, erpStock, erpProductos, procs>>

\* midnight: the next day, or the first day of the next month
NextDay ==
    /\ hoy' = IF hoy.dia < DiasMes THEN [hoy EXCEPT !.dia = @ + 1]
              ELSE LET ym == FromMonthIndex(MonthIndex(hoy.ano, hoy.mes) + 1)
                   IN [ano |-> ym.ano, mes |-> ym.mes, dia |-> 1]
    /\ Record([name |-> "nextDay", n |-> 0, rep |-> 0])
    /\ UNCHANGED <<producto, ventaHistorica, ventaActual, pedido, erpDocs, erpStock,
                   erpProductos, procs>>

\* ---- bounded catalogue and initial databases
CatalogEntry(sku, nombre, descripcion, familia) ==
    [codigo_prod |-> sku, nombre |-> nombre, descripcion |-> descripcion,
     familia |-> familia]
SampleErpProductos ==
    { <<>>,
      <<CatalogEntry("A", "Producto A", "", ""), CatalogEntry("", "Sin codigo", "", ""),
        CatalogEntry("B", "", "Producto B", "F1")>> }

\* no sale of the current month has been stored as historical yet
InitLife ==
    /\ hoy \in { [ano |-> SyncBase.ano, mes |-> SyncBase.mes, dia |-> d] : d \in 1..DiasMes }
    /\ erpDocs \in { <<DocA, DocB, DocN, DocP>>, <<DocB>> }
    /\ erpStock = <<StockAGeneral, StockB>>
    /\ erpProductos \in SampleErpProductos
    /\ procs = <<>>
    /\ producto \in { {}, {ProductoRow(1, "A", "Producto A")} }
    /\ ventaHistorica \in { {} } \cup
         { {HistRow(1, hoy, 1, 10, 50)} : x \in producto }
    /\ ventaActual \in { {} } \cup { {ActualRow(1, 3, 15, 5)} : x \in producto }
    /\ pedido = {}
    /\ lastOp = NoOp
    /\ pre = NoDb
    /\ pre0 = NoDb
    /\ AuthIdle /\ FnIdle
NextLife == SyncYesterday \/ SyncFullMonth \/ Rotate \/ FullRotation \/ NextDay
SpecLife == InitLife /\ [][NextLife]_vars

\* C12: no HistoricalMonthlySale row is dated in the current calendar month.
C12_NoCurrentMonthHistory ==
    \A h \in ventaHistorica : ~(h.ano = hoy.ano /\ h.mes = hoy.mes)

(***************************************************************************)
(* syncCurrentMonthData statement by statement, for runs that overlap each *)
(* other and dashboard reads.                                              *)
(***************************************************************************)
NumRuns == 2
Runs == 1..NumRuns
RunIdle == [pc |-> "idle", monthlySales |-> <<>>, stockMap |-> <<>>, pend |-> <<>>]

StepUnchanged ==
    UNCHANGED <<authVars, fnVars, hoy, producto, ventaHistorica, pedido, erpDocs,
                erpStock, erpProductos, lastOp, pre, pre0>>

\* the entries of the stock loop that are not skipped as already processed
RECURSIVE StockPending(_, _)
StockPending(stockMap, monthlySales) ==
    IF stockMap = <<>> THEN <<>>
    ELSE (IF MapHas(monthlySales, Head(stockMap).sku) THEN <<>> ELSE <<Head(stockMap)>>)
         \o StockPending(Tail(stockMap), monthlySales)

\* where a run stands once the entries left of its sales loop are `rest`
AfterSalesLoop(r, rest) ==
    IF rest # <<>> THEN [r EXCEPT !.pc = "loopSales", !.pend = rest]
    ELSE IF StockPending(r.stockMap, r.monthlySales) # <<>>
    THEN [r EXCEPT !.pc = "loopStock", !.pend = StockPending(r.stockMap, r.monthlySales)]
    ELSE [r EXCEPT !.pc = "done", !.pend = <<>>]
AfterStockLoop(r, rest) ==
    IF rest # <<>> THEN [r EXCEPT !.pend = rest]
    ELSE [r EXCEPT !.pc = "done", !.pend = <<>>]

\* prisma.ventaActual.deleteMany({})
CurDeleteMany ==
    \E i \in Runs :
        /\ procs[i].pc = "idle"
        /\ ventaActual' = {}
        /\ procs' = [procs EXCEPT ![i].pc = IF hoy.dia > 1 THEN "sales" ELSE "stock"]
        /\ StepUnchanged

\* getAllSales(startDate, yesterday) and its aggregation
CurFetchSales ==
    \E i \in Runs, falla \in FallaSets :
        /\ procs[i].pc = "sales"
        /\ procs' = [procs EXCEPT ![i].pc = "stock",
                                  ![i].monthlySales = aggregateSalesByProduct(
                                        getAllSales(CurrentDesde, CurrentHasta, falla))]
        /\ UNCHANGED ventaActual
        /\ StepUnchanged

\* getCurrentStock(): it answers, or throws and the run ends in its catch
CurFetchStock ==
    \E i \in Runs, stockOk \in BOOLEAN :
        /\ procs[i].pc = "stock"
        /\ procs' = [procs EXCEPT ![i] =
                        IF stockOk
                        THEN AfterSalesLoop([@ EXCEPT !.stockMap = getCurrentStock(erpStock)],
                                            @.monthlySales)
                        ELSE [@ EXCEPT !.pc = "failed"]]
        /\ UNCHANGED ventaActual
        /\ StepUnchanged

\* prisma.ventaActual.create under the unique key on producto_id: it throws
\* when the product has a row, else it inserts
CreateThrows(va, row) == \E v \in va : v.productoId = row.productoId
CreateActual(va, row) == va \cup {row}

\* one turn of the sales loop: findUnique, then skip or create
CurSalesRow ==
    \E i \in Runs :
        /\ procs[i].pc = "loopSales"
        /\ LET data == Head(procs[i].pend)
               found == FindBySku(producto, data.sku)
               row == ActualRow((CHOOSE q \in found : TRUE).id, data.cantidad,
                                data.montoNeto, StockGet(procs[i].stockMap, data.sku))
           IN IF found = {}
              THEN /\ UNCHANGED ventaActual
                   /\ procs' = [procs EXCEPT ![i] = AfterSalesLoop(@, Tail(@.pend))]
              ELSE IF CreateThrows(ventaActual, row)
              THEN /\ UNCHANGED ventaActual
                   /\ procs' = [procs EXCEPT ![i].pc = "failed"]
              ELSE /\ ventaActual' = CreateActual(ventaActual, row)
                   /\ procs' = [procs EXCEPT ![i] = AfterSalesLoop(@, Tail(@.pend))]
        /\ StepUnchanged

\* one turn of the stock loop
CurStockRow ==
    \E i \in Runs :
        /\ procs[i].pc = "loopStock"
        /\ LET e == Head(procs[i].pend)
               found == FindBySku(producto, e.sku)
               row == ActualRow((CHOOSE q \in found : TRUE).id, 0, 0, e.stock)
           IN IF found = {}
              THEN /\ UNCHANGED ventaActual
                   /\ procs' = [procs EXCEPT ![i] = AfterStockLoop(@, Tail(@.pend))]
              ELSE IF CreateThrows(ventaActual, row)
              THEN /\ UNCHANGED ventaActual
                   /\ procs' = [procs EXCEPT ![i].pc = "failed"]
              ELSE /\ ventaActual' = CreateActual(ventaActual, row)
                   /\ procs' = [procs EXCEPT ![i] = AfterStockLoop(@, Tail(@.pend))]
        /\ StepUnchanged

\* a dashboard request served between two statements of the runs
DashboardRead ==
    \E meses \in MesesValidos :
        /\ fnOut' = getDashboard(meses, "", {})
        /\ UNCHANGED <<fnIn, authVars, dbVars>>

\* every product has its row, as a completed sync with sales or stock for
\* each of them leaves it
InitCurrentSteps ==
    /\ hoy \in { [ano |-> SyncBase.ano, mes |-> SyncBase.mes, dia |-> d] : d \in 1..DiasMes }
    /\ producto = DashProductos
    /\ ventaHistorica = {}
    /\ ventaActual = {ActualRow(1, 1, 5, 5), ActualRow(2, 0, 0, 2)}
    /\ pedido = {}
    /\ erpDocs \in { <<DocA, DocB, DocN, DocP>>, <<DocB>> }
    /\ erpStock \in { <<StockAGeneral, StockB>>, <<StockB>> }
    /\ erpProductos = <<>>
    /\ procs = [i \in Runs |-> RunIdle]
    /\ lastOp = NoOp
    /\ pre = NoDb
    /\ pre0 = NoDb
    /\ AuthIdle /\ FnIdle
NextCurrentSteps ==
    CurDeleteMany \/ CurFetchSales \/ CurFetchStock \/ CurSalesRow \/ CurStockRow
        \/ DashboardRead
SpecCurrentSteps == InitCurrentSteps /\ [][NextCurrentSteps]_vars

\* C13: in every state, also between two statements of a current-month sync,
\* each product has exactly one CurrentMonthSale row.
C13_OneCurrentRowPerProduct ==
    \A p \in producto : Cardinality({v \in ventaActual : v.productoId = p.id}) = 1

\* never two rows of a product
C13_AtMostOneCurrentRow ==
    \A p \in producto : Cardinality({v \in ventaActual : v.productoId = p.id}) <= 1

(***************************************************************************)
(* syncDaySales and syncFullMonth statement by statement, for runs that    *)
(* overlap each other and a rotation.                                      *)
(***************************************************************************)
NoRow == [productoId |-> 0, ano |-> 0, mes |-> 0, cantidadVendida |-> 0, montoNeto |-> 0]
HistIdle ==
    [pc |-> "idle", op |-> "", year |-> 0, month |-> 0, pend |-> <<>>,
     productoId |-> 0, accumulate |-> FALSE, existing |-> NoRow, threw |-> ""]

HistStepUnchanged ==
    UNCHANGED <<authVars, fnVars, hoy, ventaActual, pedido, erpDocs, erpStock,
                erpProductos, lastOp, pre, pre0>>

\* where a run stands once the entries left of its loop are `rest`
NextEntry(r, rest) ==
    IF rest # <<>> THEN [r EXCEPT !.pc = "findProducto", !.pend = rest]
    ELSE [r EXCEPT !.pc = "done", !.pend = <<>>]

\* getDailySales(date) or getMonthlySales(year, month); with no sales the
\* function returns at once (the runs are numbered in the order they start)
HistFetch ==
    \E i \in Runs, op \in {"syncDaySales", "syncFullMonth"}, falla \in ScheduleFallas :
        LET desde == FirstDay(SyncBase.ano, SyncBase.mes)
            hasta == IF op = "syncDaySales" THEN desde
                     ELSE LastDay(SyncBase.ano, SyncBase.mes)
            sales == aggregateSalesByProduct(getAllSales(desde, hasta, falla))
        IN /\ procs[i].pc = "idle"
           /\ \A j \in 1..(i - 1) : procs[j].pc # "idle"
           /\ procs' = [procs EXCEPT ![i] =
                           NextEntry([@ EXCEPT !.op = op, !.year = SyncBase.ano,
                                               !.month = SyncBase.mes], sales)]
           /\ UNCHANGED <<producto, ventaHistorica>>
           /\ HistStepUnchanged

\* prisma.producto.findUnique({ where: { sku } })
HistFindProducto ==
    \E i \in Runs :
        /\ procs[i].pc = "findProducto"
        /\ LET found == FindBySku(producto, Head(procs[i].pend).sku)
           IN procs' = [procs EXCEPT ![i] =
                           IF found = {} THEN [@ EXCEPT !.pc = "createProducto"]
                           ELSE [@ EXCEPT !.pc = "findVenta",
                                          !.productoId = (CHOOSE q \in found : TRUE).id,
                                          !.accumulate = (procs[i].op = "syncDaySales")]]
        /\ UNCHANGED <<producto, ventaHistorica>>
        /\ HistStepUnchanged

\* prisma.producto.create under the unique key on sku
HistCreateProducto ==
    \E i \in Runs :
        /\ procs[i].pc = "createProducto"
        /\ LET sku == Head(procs[i].pend).sku
           IN IF FindBySku(producto, sku) # {}
              THEN /\ procs' = [procs EXCEPT ![i].pc = "failed", ![i].threw = "producto"]
                   /\ UNCHANGED producto
              ELSE /\ producto' = producto \cup {ProductoRow(NextId(producto), sku, Placeholder)}
                   /\ procs' = [procs EXCEPT ![i].pc = "findVenta",
                                             ![i].productoId = NextId(producto),
                                             ![i].accumulate = FALSE]
        /\ UNCHANGED ventaHistorica
        /\ HistStepUnchanged

\* upsertMonthlySale: prisma.ventaHistorica.findUnique
HistFindVenta ==
    \E i \in Runs :
        /\ procs[i].pc = "findVenta"
        /\ LET rows == {h \in ventaHistorica :
                           SameKey(h, procs[i].productoId, procs[i].year, procs[i].month)}
           IN procs' = [procs EXCEPT ![i].pc = "write",
                                     ![i].existing = IF rows = {} THEN NoRow
                                                     ELSE CHOOSE h \in rows : TRUE]
        /\ UNCHANGED <<producto, ventaHistorica>>
        /\ HistStepUnchanged

\* the unique index on (producto_id, ano, mes) with the check left out
HistCreateThrows_NoIndex(vh, productoId, ano, mes) == FALSE
\* prisma.ventaHistorica.create throws when the key has a row
HistCreateThrows(vh, productoId, ano, mes) ==
    \E h \in vh : SameKey(h, productoId, ano, mes)

\* upsertMonthlySale: the update of the row found, or the create
HistWrite ==
    \E i \in Runs :
        /\ procs[i].pc = "write"
        /\ LET r == procs[i]
               data == Head(r.pend)
               fresh == [productoId |-> r.productoId, ano |-> r.year, mes |-> r.month,
                         cantidadVendida |-> data.cantidad, montoNeto |-> data.montoNeto]
               added == [r.existing EXCEPT !.cantidadVendida = @ + data.cantidad,
                                           !.montoNeto = @ + data.montoNeto]
               others == {h \in ventaHistorica : ~SameKey(h, r.productoId, r.year, r.month)}
           IN IF r.existing # NoRow
              THEN /\ ventaHistorica' = others \cup {IF r.accumulate THEN added ELSE fresh}
                   /\ procs' = [procs EXCEPT ![i] = NextEntry(@, Tail(@.pend))]
              ELSE IF HistCreateThrows(ventaHistorica, r.productoId, r.year, r.month)
              THEN /\ UNCHANGED ventaHistorica
                   /\ procs' = [procs EXCEPT ![i].pc = "failed", ![i].threw = "venta"]
              ELSE /\ ventaHistorica' = ventaHistorica \cup {fresh}
                   /\ procs' = [procs EXCEPT ![i] = NextEntry(@, Tail(@.pend))]
        /\ UNCHANGED producto
        /\ HistStepUnchanged

InitHistSteps ==
    /\ hoy = LastDay(SyncBase.ano, SyncBase.mes)
    /\ producto \in { {}, {ProductoRow(1, "A", "Producto A")} }
    /\ ventaHistorica \in { {} } \cup
         { {[productoId |-> 1, ano |-> SyncBase.ano, mes |-> SyncBase.mes,
             cantidadVendida |-> 10, montoNeto |-> 50]} : x \in producto }
    /\ ventaActual \in { {} } \cup { {ActualRow(1, 3, 15, 5)} : x \in producto }
    /\ pedido = {}
    /\ erpDocs \in { <<DocA, DocN, DocP>>, <<DocA>> }
    /\ erpStock = <<>>
    /\ erpProductos = <<>>
    /\ procs = [i \in Runs |-> HistIdle]
    /\ lastOp = NoOp
    /\ pre = NoDb
    /\ pre0 = NoDb
    /\ AuthIdle /\ FnIdle
\* a rotation, its transaction running between two statements of the syncs
HistRotate ==
    \E fate \in FateMaps :
        /\ SetDb(rotarVentasActualesAHistoricas(Db, getMesActual, fate).db)
        /\ UNCHANGED <<authVars, fnVars, hoy, erpDocs, erpStock, erpProductos, procs,
                       lastOp, pre, pre0>>

NextHistSteps ==
    HistFetch \/ HistFindProducto \/ HistCreateProducto \/ HistFindVenta \/ HistWrite
        \/ HistRotate
SpecHistSteps == InitHistSteps /\ [][NextHistSteps]_vars

\* C14: there is at most one HistoricalMonthlySale row per (product, year,
\* month), whatever the interleaving of the syncs and the rotation.
C14_OneHistoricalRowPerKey ==
    \A h1 \in ventaHistorica : \A h2 \in ventaHistorica :
        SameKey(h1, h2.productoId, h2.ano, h2.mes) => h1 = h2

\* two runs both found no row of a key; one created it and the create of the
\* other threw
C14_Witness ==
    \E i \in Runs : \E j \in Runs :
        /\ procs[i].threw = "venta"
        /\ procs[i].existing = NoRow
        /\ procs[j].pc = "done"
        /\ Cardinality({h \in ventaHistorica :
               SameKey(h, procs[i].productoId, procs[i].year, procs[i].month)}) = 1

\* ---- C15
\* the lock is held only while the authentication of its holder is in flight,
\* and a caller waits only on the authentication in flight
LockHeldOnlyInFlight ==
    /\ authPromise # 0 => pc[authPromise] = "awaitPost"
    /\ \A d \in Callers :
          pc[d] = "awaitLock" => authPromise # 0 /\ joined[d] = joined[authPromise]

\* the step in which the authentication started by c settles hands its outcome
\* to every caller waiting on it and leaves the lock free
SettleReleases ==
    \A c \in Callers :
        pc[c] = "awaitPost" /\ pc'[c] \in {"done", "failed"} =>
            /\ authPromise' = 0
            /\ \A d \in Callers :
                  pc[d] = "awaitLock" /\ joined[d] = joined[c] =>
                      /\ pc'[d] = pc'[c]
                      /\ result'[d] = result'[c]
            /\ pc'[c] = "failed" => result'[c] = 0 /\ UNCHANGED authToken

\* a call made while no token is valid and no authentication is in flight
\* issues a POST of its own
FreshAfterSettle ==
    \A c \in Callers :
        (pc[c] = "idle" /\ pc'[c] # "idle" /\ ~TokenValid
            /\ \A d \in Callers : pc[d] # "awaitPost")
        => pc'[c] = "awaitPost" /\ joined'[c] = posts + 1 /\ posts' = posts + 1

\* C15: the lock is released when the in-flight authentication settles, on
\* success and on failure alike; the callers waiting on a failed
\* authentication all receive the failure, and the next call starts a fresh
\* authentication.
C15_LockReleasedOnSettle ==
    []LockHeldOnlyInFlight /\ [][SettleReleases /\ FreshAfterSettle]_vars

\* two callers received the failure of one authentication and a third, calling
\* afterwards, has a POST of its own in flight
C15_Witness ==
    \E c \in Callers : \E d \in Callers : \E e \in Callers :
        /\ c # d
        /\ authVariant = "locked"
        /\ pc[c] = "failed" /\ pc[d] = "failed"
        /\ joined[c] = joined[d] /\ joined[c] # 0
        /\ pc[e] = "awaitPost" /\ joined[e] > joined[c]
        /\ authPromise = e

\* ---- C16
\* a token is cached and its expiry, one hour after it was issued, is ahead
CachedUnexpired == authToken # 0 /\ tokenExpirationTime # 0 /\ clock < tokenExpirationTime

\* the step in which c calls getAuthHeaders
Calls(c) == pc[c] = "idle" /\ pc'[c] # "idle"

CallUsesCache ==
    \A c \in Callers :
        Calls(c) =>
            IF CachedUnexpired
            THEN pc'[c] = "done" /\ result'[c] = authToken /\ posts' = posts
            ELSE /\ result'[c] = 0
                 /\ \/ pc'[c] = "awaitPost" /\ posts' = posts + 1 /\ joined'[c] = posts'
                    \/ /\ pc'[c] = "awaitLock"
                       /\ \E d \in Callers : pc[d] = "awaitPost" /\ joined'[c] = joined[d]

\* a stored token expires one hour after the response that stored it
ExpiryOneHour ==
    authToken' # authToken => tokenExpirationTime' = clock + TokenTTL

\* a caller that had to wait returns the token of the authentication it waited for
WaitedForToken ==
    \A c \in Callers : pc[c] = "done" /\ joined[c] # 0 => result[c] = joined[c]

\* C16: a getAuthHeaders call made while a token is cached and unexpired (less
\* than one hour after issuance) returns it without an authentication request;
\* a call made after expiry, or with no token cached, returns only after an
\* authentication.
C16_CachedUntilExpiry ==
    []WaitedForToken /\ [][CallUsesCache /\ ExpiryOneHour]_vars

\* one caller was served from the cache; the token has expired since and
\* another caller has an authentication in flight
C16_Witness ==
    \E c \in Callers : \E d \in Callers :
        /\ pc[c] = "done" /\ joined[c] = 0 /\ result[c] # 0
        /\ authToken # 0 /\ clock >= tokenExpirationTime
        /\ pc[d] = "awaitPost"

\* ---- C17, C18
SyncOps == {"syncDaySales", "syncFullMonth", "syncCurrentMonthData"}

\* the last operation asked the ERP for sales documents
FetchedSales ==
    /\ lastOp.name \in SyncOps
    /\ lastOp.name = "syncCurrentMonthData" => hoy.dia > 1

\* the sales tables are as the operation found them
SalesTablesUntouched ==
    ventaHistorica = pre.ventaHistorica /\ ventaActual = pre.ventaActual

\* C17: a sync operation whose ERP login fails (no kind of document can be
\* fetched, getAuthHeaders throwing inside every getDocumentsByType) ends in
\* failure and leaves the sales tables as they were.
C17_AuthFailureIsFatal ==
    FetchedSales /\ lastOp.todas => ~lastOp.ok /\ SalesTablesUntouched

\* C18: a sync operation during which the fetch of some kind of document fails
\* while another kind succeeds ends in failure and persists no totals.
C18_FetchErrorSurfaced ==
    FetchedSales /\ ~lastOp.completo /\ ~lastOp.todas
        => ~lastOp.ok /\ SalesTablesUntouched

\* ---------------------------------------------------------------------------
\* getFAVEDetails (services/faveService.js), one statement per step.  The file
\* holds two versions: the first takes returnErrorInfo and treats 429 apart,
\* the second treats every error alike.
MaxRetries == 2

FaveVersions == {1, 2}
\* what one GET can bring: a document, a body without data, HTTP 429, another error
FaveResponses == {"doc", "empty", "429", "error"}

FaveStart(version, maxRetries, returnErrorInfo) ==
    [pc |-> "auth", version |-> version, maxRetries |-> maxRetries,
     returnErrorInfo |-> returnErrorInfo, attempt |-> 0, requests |-> 0,
     respuestas |-> <<>>, outcome |-> "none"]

\* return null, or the success:false record when error info was asked for
FailureValue(p) == IF p.returnErrorInfo THEN "failure" ELSE "null"
\* return the document, or the success:true record
SuccessValue(p) == IF p.returnErrorInfo THEN "record" ELSE "doc"

Return(p, value) == [p EXCEPT !.pc = "done", !.outcome = value]

\* a loop test that never ends the loop
LoopContinues_NoCap(attempt, maxRetries) == TRUE

\* attempt <= maxRetries
LoopContinues(attempt, maxRetries) == attempt <= maxRetries

\* the head of the for loop; the statements after the loop return the failure
LoopHead(p) ==
    IF LoopContinues(p.attempt, p.maxRetries)
    THEN [p EXCEPT !.pc = "get"]
    ELSE Return(p, FailureValue(p))

\* const headers = await getAuthHeaders(), outside any try
FaveAuth ==
    /\ procs[1].pc = "auth"
    /\ \E ok \in BOOLEAN :
          procs' = <<IF ok THEN LoopHead(procs[1]) ELSE Return(procs[1], "raise")>>
    /\ HistStepUnchanged /\ UNCHANGED <<producto, ventaHistorica>>

\* the catch block of either version
FaveCatch(p, r) ==
    IF p.version = 1 /\ r = "429"
    THEN IF p.returnErrorInfo /\ p.attempt = p.maxRetries
         THEN Return(p, "failure")
         ELSE [p EXCEPT !.pc = "wait"]
    ELSE IF p.attempt = p.maxRetries
         THEN Return(p, FailureValue(p))
         ELSE [p EXCEPT !.pc = "wait"]

\* await axios.get(...) and the handling of what it brings
FaveGet ==
    /\ procs[1].pc = "get"
    /\ procs[1].requests <= MaxRetries + 1
    /\ \E r \in FaveResponses :
          LET p == [procs[1] EXCEPT !.requests = @ + 1, !.respuestas = Append(@, r)]
          IN procs' = <<CASE r = "doc" -> Return(p, SuccessValue(p))
                          [] r = "empty" -> Return(p, FailureValue(p))
                          [] OTHER -> FaveCatch(p, r)>>
    /\ HistStepUnchanged /\ UNCHANGED <<producto, ventaHistorica>>

\* the timer of the wait fires: attempt++ and the loop test
FaveWait ==
    /\ procs[1].pc = "wait"
    /\ procs' = <<LoopHead([procs[1] EXCEPT !.attempt = @ + 1])>>
    /\ HistStepUnchanged /\ UNCHANGED <<producto, ventaHistorica>>

InitFave ==
    /\ \E version \in FaveVersions, maxRetries \in 0..MaxRetries,
          returnErrorInfo \in BOOLEAN :
          /\ version = 2 => ~returnErrorInfo
          /\ procs = <<FaveStart(version, maxRetries, returnErrorInfo)>>
    /\ hoy = [ano |-> 0, mes |-> 1, dia |-> 1]
    /\ producto = {} /\ ventaHistorica = {} /\ ventaActual = {} /\ pedido = {}
    /\ erpDocs = <<>> /\ erpStock = <<>> /\ erpProductos = <<>>
    /\ lastOp = NoOp /\ pre = NoDb /\ pre0 = NoDb
    /\ AuthIdle /\ FnIdle

NextFave == FaveAuth \/ FaveGet \/ FaveWait
SpecFave == InitFave /\ [][NextFave]_vars
\* every awaited request and timer settles
SpecFaveFair == SpecFave /\ WF_vars(NextFave)

\* ---- C19
FaveDone == procs[1].pc = "done"

FaveAttemptsBounded == procs[1].requests <= procs[1].maxRetries + 1

\* every one of the maxRetries + 1 attempts failed with 429 or another error
FaveExhausted ==
    /\ FaveDone
    /\ Len(procs[1].respuestas) = procs[1].maxRetries + 1
    /\ \A k \in 1..Len(procs[1].respuestas) : procs[1].respuestas[k] \in {"429", "error"}

FaveExhaustionReturns ==
    /\ FaveExhausted => procs[1].outcome = FailureValue(procs[1])
    /\ procs[1].outcome = "raise" => procs[1].requests = 0

MaxRequests == 3

\* what one GET of the documents can bring
DocsResponses == {"ok", "noArray", "429", "error"}

Bump(n) == IF n < MaxRequests THEN n + 1 ELSE MaxRequests

\* a call getDocumentsByType(docType, fechaInicio, fechaFin); siempre429 tells
\* whether the ERP answers every request of this call with 429
DocsCall(docType, fechaInicio, fechaFin, siempre429) ==
    [pc |-> "auth", docType |-> docType, fechaInicio |-> fechaInicio,
     fechaFin |-> fechaFin, siempre429 |-> siempre429,
     url |-> <<>>, requests |-> 0, n429 |-> 0, last |-> "none",
     outcome |-> "none", documents |-> <<>>]

\* the url of the request: kind, df and dt
DocsUrl(p) == <<p.docType, p.fechaInicio, p.fechaFin>>

\* a 429 branch that gives up after two retries
On429_Capped(p) ==
    IF p.n429 > 2 THEN [p EXCEPT !.pc = "done", !.outcome = "raise"]
    ELSE [p EXCEPT !.pc = "wait"]

\* if (error.response?.status === 429): wait retryAfter + 1 seconds
On429(p) == [p EXCEPT !.pc = "wait"]

\* const headers = await getAuthHeaders(), inside the try: a failed login is
\* an error without a response, logged and thrown again
DocsAuth ==
    /\ procs[1].pc = "auth"
    /\ \E ok \in BOOLEAN :
          procs' = <<IF ok THEN [procs[1] EXCEPT !.pc = "get"]
                     ELSE [procs[1] EXCEPT !.pc = "done", !.outcome = "raise",
                                           !.last = "auth"]>>
    /\ HistStepUnchanged /\ UNCHANGED <<producto, ventaHistorica>>

\* await axios.get(url, ...) and what follows it
DocsGet ==
    /\ procs[1].pc = "get"
    /\ \E r \in DocsResponses :
          /\ procs[1].siempre429 => r = "429"
          /\ LET p == [procs[1] EXCEPT !.url = DocsUrl(procs[1]),
                                       !.requests = Bump(@), !.last = r,
                                       !.n429 = IF r = "429" THEN Bump(@) ELSE @]
             IN procs' = <<CASE r = "ok" ->
                                 [p EXCEPT !.pc = "done", !.outcome = "documents",
                                           !.documents = getDocumentsByType(
                                               p.docType, p.fechaInicio, p.fechaFin)]
                             [] r = "noArray" ->
                                 [p EXCEPT !.pc = "done", !.outcome = "documents"]
                             [] r = "429" -> On429(p)
                             [] OTHER ->
                                 [p EXCEPT !.pc = "done", !.outcome = "raise"]>>
    /\ HistStepUnchanged /\ UNCHANGED <<producto, ventaHistorica>>

\* the timer fires: return getDocumentsByType(docType, fechaInicio, fechaFin)
DocsWait ==
    /\ procs[1].pc = "wait"
    /\ procs' = <<[procs[1] EXCEPT !.pc = "auth"]>>
    /\ HistStepUnchanged /\ UNCHANGED <<producto, ventaHistorica>>

InitDocs ==
    /\ erpDocs \in { <<DocA, DocB, DocN, DocP>>, <<DocN, DocP>> }
    /\ \E docType \in DocTypeSet, ym \in SyncMonths, siempre429 \in BOOLEAN :
          procs = <<DocsCall(docType, FirstDay(ym.ano, ym.mes),
                             LastDay(ym.ano, ym.mes), siempre429)>>
    /\ hoy = [ano |-> 0, mes |-> 1, dia |-> 1]
    /\ producto = {} /\ ventaHistorica = {} /\ ventaActual = {} /\ pedido = {}
    /\ erpStock = <<>> /\ erpProductos = <<>>
    /\ lastOp = NoOp /\ pre = NoDb /\ pre0 = NoDb
    /\ AuthIdle /\ FnIdle

NextDocs == DocsAuth \/ DocsGet \/ DocsWait
SpecDocs == InitDocs /\ [][NextDocs]_vars

\* ---- C20
DocsDone == procs[1].pc = "done"

\* a 429 answer is never the end of the call: it waits, and the wait re-enters
\* the function with the same arguments
RetryOn429 ==
    /\ procs[1].pc = "get" /\ procs'[1].last = "429" => procs'[1].pc = "wait"
    /\ procs[1].pc = "wait" => procs'[1].pc = "auth"
    /\ DocsUrl(procs'[1]) = DocsUrl(procs[1])

\* every request issued is the one of the kind and date range asked for
SameRequest == procs[1].requests > 0 => procs[1].url = DocsUrl(procs[1])

\* k answers of 429 and then a success: k + 1 requests, that response's documents
ReturnsAfterRetries ==
    DocsDone /\ procs[1].outcome = "documents" =>
        /\ procs[1].requests < MaxRequests => procs[1].requests = procs[1].n429 + 1
        /\ procs[1].documents =
               IF procs[1].last = "ok"
               THEN DocsOf(erpDocs, procs[1].docType, procs[1].fechaInicio,
                           procs[1].fechaFin)
               ELSE <<>>

\* the call raises only on a failed login or a non-429 answer
RaisesOnlyOtherErrors ==
    procs[1].outcome = "raise" => procs[1].last \in {"auth", "error"}

\* answered 429 every time, the call ends only if a login before a retry fails
Endless429 ==
    procs[1].siempre429 /\ DocsDone =>
        procs[1].outcome = "raise" /\ procs[1].last = "auth"

\* C20 (as the code has it): on 429 the bulk fetch waits and re-enters itself
\* with the same kind and date range, with no cap; after k answers of 429 and
\* a success it returns that response's documents after exactly k + 1 requests;
\* answered 429 every time it never returns, and it raises only if the
\* getAuthHeaders call that precedes a retry fails.
C20_Retry429Uncapped ==
    [](SameRequest /\ ReturnsAfterRetries /\ RaisesOnlyOtherErrors /\ Endless429)
        /\ [][RetryOn429]_vars

\* C20 as stated: once answered 429, a call that the ERP answers with 429
\* every time never returns and never raises.
C20_Endless429NeverEnds ==
    procs[1].siempre429 /\ procs[1].n429 >= 1 => ~DocsDone

\* two answers of 429, then the documents, after three requests
C20_Witness ==
    /\ DocsDone /\ procs[1].outcome = "documents" /\ procs[1].last = "ok"
    /\ procs[1].n429 = 2 /\ procs[1].requests = 3
    /\ procs[1].documents # <<>>

\* ---- C21
CurrentOrders(p) ==
    {o \in pedido : o.productoId = p.id /\ o.ano = hoy.ano /\ o.mes = hoy.mes}

RowOrdered(r) ==
    IF CurrentOrders(r.producto) = {}
    THEN r.compraRealizar = Null
    ELSE \E o \in CurrentOrders(r.producto) :
             r.compraRealizar = [null |-> FALSE, n |-> o.cantidad]

\* C21: in every dashboard row compraRealizar is the quantity of the stored
\* order of the product for the current (year, month), a stored 0 included,
\* and null when there is none, whatever the suggested purchase is.
C21_OrderedQuantityStored ==
    DashServed => \A i \in 1..Len(fnOut.rows) : RowOrdered(fnOut.rows[i])

\* a stored 0 served as 0 and a product whose only order is of another month
\* served as null, both with a suggested purchase that is not 0
C21_Witness ==
    /\ DashServed /\ Len(fnOut.rows) = 2
    /\ fnOut.rows[1].compraRealizar = [null |-> FALSE, n |-> 0]
    /\ fnOut.rows[1].compraSugerida # 0
    /\ fnOut.rows[2].compraRealizar = Null
    /\ fnOut.rows[2].compraSugerida # 0
    /\ \E o \in pedido : o.productoId = fnOut.rows[2].producto.id

\* ---------------------------------------------------------------------------
\* Purchase orders: saveOrden and resetOrdenes (controllers/dashboardController.js),
\* upsertPedidoActual (controllers/pedidosController.js)
MaxOrderItems == 2

\* an item of the request body; productoId 0 stands for a missing or falsy
\* productoId, definida = FALSE for cantidad === undefined
OrderItem(productoId, definida, cantidad) ==
    [productoId |-> productoId, definida |-> definida, cantidad |-> cantidad]

\* an upsert that inserts without looking for the row of the key
PedidoUpsert_AlwaysCreate(pe, productoId, ano, mes, cantidad) ==
    pe \cup {[productoId |-> productoId, ano |-> ano, mes |-> mes, cantidad |-> cantidad]}

\* prisma.pedido.upsert({ where: { productoId_ano_mes }, update, create })
PedidoUpsert(pe, productoId, ano, mes, cantidad) ==
    {o \in pe : ~(o.productoId = productoId /\ o.ano = ano /\ o.mes = mes)}
        \cup {[productoId |-> productoId, ano |-> ano, mes |-> mes, cantidad |-> cantidad]}

\* the foreign key pedidos.producto_id -> productos.id
ProductoExists(productoId) == \E p \in producto : p.id = productoId

\* the loop of saveOrden; a thrown upsert ends it, what was written stays
RECURSIVE SaveOrdenLoop(_, _, _)
SaveOrdenLoop(items, pe, saved) ==
    IF items = <<>> THEN [pedido |-> pe, saved |-> saved, status |-> 200]
    ELSE LET item == Head(items)
         IN IF item.productoId = 0 \/ ~item.definida
            THEN SaveOrdenLoop(Tail(items), pe, saved)
            ELSE IF ~ProductoExists(item.productoId)
                 THEN [pedido |-> pe, saved |-> saved, status |-> 500]
                 ELSE SaveOrdenLoop(Tail(items),
                                    PedidoUpsert(pe, item.productoId, getMesActual.ano,
                                                 getMesActual.mes, item.cantidad),
                                    saved + 1)

saveOrden(items) == SaveOrdenLoop(items, pedido, 0)

\* upsertPedidoActual; productoId 0 stands for a parameter that parses to NaN,
\* and the item's cantidad is parseFloat(cantidad) || 0
upsertPedidoActual(item) ==
    IF item.productoId = 0 THEN [pedido |-> pedido, saved |-> 0, status |-> 400]
    ELSE IF ~ProductoExists(item.productoId)
         THEN [pedido |-> pedido, saved |-> 0, status |-> 404]
         ELSE [pedido |-> PedidoUpsert(pedido, item.productoId, getMesActual.ano,
                                       getMesActual.mes,
                                       IF item.definida THEN item.cantidad ELSE 0),
               saved |-> 1, status |-> 200]

\* a reset that forgets the month filter
resetOrdenes_AllMonths(pe) == {}

\* prisma.pedido.deleteMany({ where: { ano, mes } }) of resetOrdenes
resetOrdenes(pe) ==
    {o \in pe : ~(o.ano = getMesActual.ano /\ o.mes = getMesActual.mes)}

OrderItems ==
    { OrderItem(1, TRUE, 0), OrderItem(1, TRUE, 5), OrderItem(2, TRUE, 8),
      OrderItem(3, TRUE, 5), OrderItem(0, TRUE, 5), OrderItem(1, FALSE, 0) }
OrderBodies == UNION { [1..n -> OrderItems] : n \in 0..MaxOrderItems }

SaveOrden ==
    \E items \in OrderBodies :
        LET r == saveOrden(items)
        IN /\ pedido' = r.pedido
           /\ Record([name |-> "saveOrden", n |-> 0, rep |-> 0, items |-> items,
                      saved |-> r.saved, status |-> r.status])
           /\ UNCHANGED <<authVars, fnVars, hoy, producto, ventaHistorica, ventaActual,
                          erpDocs, erpStock, erpProductos, procs>>

UpsertPedidoActual ==
    \E item \in OrderItems :
        LET r == upsertPedidoActual(item)
        IN /\ pedido' = r.pedido
           /\ Record([name |-> "upsertPedidoActual", n |-> 0, rep |-> 0,
                      items |-> <<item>>, saved |-> r.saved, status |-> r.status])
           /\ UNCHANGED <<authVars, fnVars, hoy, producto, ventaHistorica, ventaActual,
                          erpDocs, erpStock, erpProductos, procs>>

ResetOrdenes ==
    /\ pedido' = resetOrdenes(pedido)
    /\ Record([name |-> "resetOrdenes", n |-> 0, rep |-> 0, items |-> <<>>,
               saved |-> 0, status |-> 200])
    /\ UNCHANGED <<authVars, fnVars, hoy, producto, ventaHistorica, ventaActual,
                   erpDocs, erpStock, erpProductos, procs>>

OrderPedidos ==
    { {}, {PedidoRow(1, DashHoy, 1, 4), PedidoRow(2, DashHoy, 0, 6)},
      {PedidoRow(1, DashHoy, 0, 7), PedidoRow(1, DashHoy, 2, 3), PedidoRow(2, DashHoy, 1, 9)} }

InitOrders ==
    /\ hoy = DashHoy
    /\ producto = DashProductos
    /\ ventaHistorica \in { {}, {HistRow(1, DashHoy, 1, 2, 10)} }
    /\ ventaActual \in { {}, {ActualRow(1, 10, 50, 20)} }
    /\ pedido \in OrderPedidos
    /\ erpDocs = <<>>
    /\ erpStock = <<>>
    /\ erpProductos = <<>>
    /\ procs = <<>>
    /\ lastOp = NoOp
    /\ pre = NoDb
    /\ pre0 = NoDb
    /\ AuthIdle /\ FnIdle
NextOrders == SaveOrden \/ UpsertPedidoActual \/ ResetOrdenes
SpecOrders == InitOrders /\ [][NextOrders]_vars

\* ---- C22
IsCurrentKey(o) == o.ano = hoy.ano /\ o.mes = hoy.mes

OneOrderPerKey ==
    \A o1 \in pedido : \A o2 \in pedido :
        o1.productoId = o2.productoId /\ o1.ano = o2.ano /\ o1.mes = o2.mes => o1 = o2

SaveRan == lastOp.name \in {"saveOrden", "upsertPedidoActual"}

\* the items of the last call that were written: saveOrden skips an item
\* without productoId or cantidad and stops at the first upsert that throws
RECURSIVE WrittenItems(_)
WrittenItems(items) ==
    IF items = <<>> THEN <<>>
    ELSE LET item == Head(items)
         IN IF item.productoId = 0 THEN WrittenItems(Tail(items))
            ELSE IF lastOp.name = "saveOrden" /\ ~item.definida
                 THEN WrittenItems(Tail(items))
                 ELSE IF ~ProductoExists(item.productoId) THEN <<>>
                      ELSE <<item>> \o WrittenItems(Tail(items))

\* the quantity an item submits
Submitted(item) == IF item.definida THEN item.cantidad ELSE 0

LastWritten(w, productoId) ==
    LET ks == {k \in 1..Len(w) : w[k].productoId = productoId}
    IN w[CHOOSE k \in ks : \A j \in ks : j <= k]

SaveFrame ==
    LET w == WrittenItems(lastOp.items)
        ids == {w[k].productoId : k \in 1..Len(w)}
    IN /\ Len(w) = lastOp.saved
       /\ \A id \in ids :
              \E o \in pedido : /\ o.productoId = id /\ IsCurrentKey(o)
                                /\ o.cantidad = Submitted(LastWritten(w, id))
       /\ {o \in pedido : ~(o.productoId \in ids /\ IsCurrentKey(o))}
              = {o \in pre.pedido : ~(o.productoId \in ids /\ IsCurrentKey(o))}

\* C22: after any sequence of save-order calls there is at most one order per
\* (productId, year, month); each saved item creates or overwrites only the row
\* keyed (productId, current year, current month), which ends with the last
\* quantity submitted for it, and rows of other products or months are unchanged.
C22_SaveUpsertsCurrentKey ==
    OneOrderPerKey /\ (SaveRan => SaveFrame)

\* one call saved the same product twice over a stored row, another product's
\* row and a row of another month being on file
C22_Witness ==
    /\ lastOp.name = "saveOrden" /\ lastOp.saved = 2
    /\ lastOp.items[1].productoId = 1 /\ lastOp.items[2].productoId = 1
    /\ lastOp.items[1].cantidad # lastOp.items[2].cantidad
    /\ \E o \in pre.pedido : o.productoId = 1 /\ IsCurrentKey(o)
    /\ \E o \in pedido : o.productoId = 1 /\ ~IsCurrentKey(o)
    /\ \E o \in pedido : o.productoId = 2

\* ---- C23
\* C23: the reset deletes every order of the current (year, month) and nothing
\* else: orders of other months and all product, historical and current-month
\* rows are as before.
C23_ResetDeletesCurrentMonthOnly ==
    lastOp.name = "resetOrdenes" =>
        /\ pedido = {o \in pre.pedido : ~IsCurrentKey(o)}
        /\ producto = pre.producto
        /\ ventaHistorica = pre.ventaHistorica
        /\ ventaActual = pre.ventaActual

\* a reset that found orders of the current month and of other months
C23_Witness ==
    /\ lastOp.name = "resetOrdenes"
    /\ \E o \in pre.pedido : IsCurrentKey(o)
    /\ \E o \in pedido : ~IsCurrentKey(o)
    /\ pre.ventaHistorica # {} /\ pre.ventaActual # {}

\* ---------------------------------------------------------------------------
\* necesitaRotacion (services/rotacionService.js)
\* findFirst({ orderBy: [{ ano: 'desc' }, { mes: 'desc' }] })
UltimaVentaHistorica(vh) ==
    CHOOSE h \in vh : \A g \in vh : g.ano < h.ano \/ (g.ano = h.ano /\ g.mes <= h.mes)

\* a check that asks for a rotation when there is no history
necesitaRotacion_TrueWhenEmpty(vh, mesActual, falla) ==
    IF falla THEN FALSE
    ELSE IF vh = {} THEN TRUE
         ELSE UltimaVentaHistorica(vh).ano # mesActual.ano
                  \/ UltimaVentaHistorica(vh).mes # mesActual.mes

\* falla: the lookup throws, which the catch turns into false
necesitaRotacion(vh, mesActual, falla) ==
    IF falla THEN FALSE
    ELSE IF vh = {} THEN FALSE
         ELSE UltimaVentaHistorica(vh).ano # mesActual.ano
                  \/ UltimaVentaHistorica(vh).mes # mesActual.mes

NecesitaRotacion ==
    \E falla \in BOOLEAN :
        /\ fnOut' = [name |-> "necesitaRotacion", falla |-> falla,
                     rows |-> ventaHistorica, mesActual |-> getMesActual,
                     value |-> necesitaRotacion(ventaHistorica, getMesActual, falla)]
        /\ UNCHANGED <<fnIn, authVars, dbVars>>

NextNeeds == NecesitaRotacion \/ FullRotation \/ NextMonth
SpecNeeds == InitRot /\ [][NextNeeds]_vars

\* ---- C24
\* the greatest (year, month) on file differs from the current one
GreatestDiffers(rows, ym) ==
    \E h \in rows :
        /\ \A g \in rows : MonthIndex(g.ano, g.mes) <= MonthIndex(h.ano, h.mes)
        /\ MonthIndex(h.ano, h.mes) # MonthIndex(ym.ano, ym.mes)

\* C24: necesitaRotacion answers false when there is no historical row or the
\* lookup fails, and otherwise true exactly when the greatest (year, month)
\* among the historical rows differs from the current calendar (year, month).
C24_NeedsRotation ==
    fnOut.name = "necesitaRotacion" =>
        fnOut.value = (/\ ~fnOut.falla
                       /\ fnOut.rows # {}
                       /\ GreatestDiffers(fnOut.rows, fnOut.mesActual))

\* true was answered with rows of several months on file, the current month
\* not among them
C24_Witness ==
    /\ fnOut.name = "necesitaRotacion" /\ fnOut.value
    /\ Cardinality({MonthIndex(h.ano, h.mes) : h \in fnOut.rows}) >= 2

\* ---- C25
\* C25: executing the full rotation twice in succession within one calendar
\* month leaves the historical, current-month and order tables as executing
\* it once does.
C25_FullRotationIdempotent ==
    lastOp.name = "fullRotation" /\ lastOp.rep = 2 /\ lastOp.errores = 0 =>
        /\ ventaHistorica = pre.ventaHistorica
        /\ ventaActual = pre.ventaActual
        /\ pedido = pre.pedido

\* ---------------------------------------------------------------------------
\* syncStream (controllers/dashboardController.js): the events written to the
\* response, in order
\* the value of a call to a function that ends without return
Undefined == "undefined"

\* what the awaited calls resolve to: neither function of scripts/syncDaily.js
\* has a return statement on its success path
syncNewProductsValue == Undefined
syncCurrentMonthDataValue == Undefined

StreamOrder == <<"start", "products", "products_done", "data", "data_done">>

\* threw names what raised the error the catch reports: a sync step, or the
\* read of a property of undefined when the next message is built
syncStream(db, catalogOk, falla, stockOk) ==
    LET ev1 == <<"start", "products">>
        db1 == syncNewProducts(db)
        ev2 == ev1 \o <<"products_done", "data">>
        db2 == syncCurrentMonthData(db1, falla, stockOk)
    IN IF ~catalogOk
       THEN [db |-> db, events |-> ev1 \o <<"error">>, threw |-> "syncNewProducts"]
       ELSE IF syncNewProductsValue = Undefined
       THEN [db |-> db1, events |-> ev1 \o <<"error">>, threw |-> "TypeError"]
       ELSE IF ~stockOk
       THEN [db |-> db2, events |-> ev2 \o <<"error">>, threw |-> "syncCurrentMonthData"]
       ELSE IF syncCurrentMonthDataValue = Undefined
       THEN [db |-> db2, events |-> ev2 \o <<"error">>, threw |-> "TypeError"]
       ELSE [db |-> db2, events |-> ev2 \o <<"data_done", "complete">>, threw |-> "none"]

SyncStream ==
    \E catalogOk \in BOOLEAN, falla \in ScheduleFallas, stockOk \in BOOLEAN :
        LET out == syncStream(Db, catalogOk, falla, stockOk)
        IN /\ SetDb(out.db)
           /\ fnOut' = [name |-> "syncStream", events |-> out.events, threw |-> out.threw]
           /\ UNCHANGED <<fnIn, authVars, hoy, erpDocs, erpStock, erpProductos, procs,
                          lastOp, pre, pre0>>

NextStream == SyncStream
SpecStream == InitLife /\ [][NextStream]_vars

\* ---- C26
StreamRan == fnOut.name = "syncStream"
Terminal(events) == events[Len(events)]

\* C26: a run of the stream writes a prefix of start, products, products_done,
\* data, data_done followed by exactly one terminal event: complete, after all
\* five, when no sync step throws, and error otherwise.
C26_StreamEventOrder ==
    StreamRan =>
        /\ \E k \in 1..Len(StreamOrder) :
               /\ SubSeq(fnOut.events, 1, Len(fnOut.events) - 1) = SubSeq(StreamOrder, 1, k)
               /\ Terminal(fnOut.events) = "complete" => k = Len(StreamOrder)
        /\ Terminal(fnOut.events) \in {"complete", "error"}
        /\ Terminal(fnOut.events) = "complete"
               <=> fnOut.threw \notin {"syncNewProducts", "syncCurrentMonthData"}

\* ---- C27
\* the month array of a row is the N months before the current one, oldest first
RowWindow(r) ==
    /\ Len(r.ventasMeses) = RowN
    /\ \A j \in 1..RowN :
           MonthIndex(r.ventasMeses[j].ano, r.ventasMeses[j].mes)
               = MonthIndex(hoy.ano, hoy.mes) - (RowN + 1 - j)

\* each month carries the product's historical quantity, 0 without a row
RowQuantities(r) ==
    \A j \in 1..Len(r.ventasMeses) :
        LET rows == {h \in ventaHistorica : /\ h.productoId = r.producto.id
                                            /\ h.ano = r.ventasMeses[j].ano
                                            /\ h.mes = r.ventasMeses[j].mes}
        IN IF rows = {} THEN r.ventasMeses[j].cantidad = 0
           ELSE \E h \in rows : r.ventasMeses[j].cantidad = h.cantidadVendida

\* promedio, kept in hundredths, is the hundredth nearest to sum / N
RowAverageRounded(r) ==
    LET total == SumCantidad(r.ventasMeses)
    IN /\ 2 * RowN * r.promedio <= 200 * total + RowN
       /\ 200 * total + RowN < 2 * RowN * (r.promedio + 1)

\* promedio is sum / N itself
RowAverageExact(r) == RowN * r.promedio = 100 * SumCantidad(r.ventasMeses)

\* C27 (as the code has it): for N in {3, 6, 12} the month array of every row
\* is exactly the N calendar months before the current month, ascending, the
\* current month excluded, each with the product's historical quantity or 0,
\* and the average served is (sum of those N quantities) / N, the divisor
\* being N, rounded to two decimals.
C27_WindowAndAverage ==
    DashServed =>
        \A i \in 1..Len(fnOut.rows) :
            /\ RowWindow(fnOut.rows[i])
            /\ RowQuantities(fnOut.rows[i])
            /\ RowAverageRounded(fnOut.rows[i])

\* C27 as stated: the average served equals (sum of the N quantities) / N.
C27_AverageIsExactQuotient ==
    DashServed =>
        \A i \in 1..Len(fnOut.rows) :
            /\ RowWindow(fnOut.rows[i])
            /\ RowQuantities(fnOut.rows[i])
            /\ RowAverageExact(fnOut.rows[i])

\* three months asked for, one of them with sales of 2, a row of the current
\* month on file: the average served is 0.67
C27_Witness ==
    /\ DashServed /\ RowN = 3 /\ Len(fnOut.rows) = 2
    /\ fnOut.rows[1].ventasMeses[1].cantidad = 0
    /\ fnOut.rows[1].ventasMeses[3].cantidad = 2
    /\ fnOut.rows[1].promedio = 67
    /\ \E h \in ventaHistorica : h.productoId = 1 /\ h.ano = hoy.ano /\ h.mes = hoy.mes

\* ---------------------------------------------------------------------------
\* The current-month sync alone, on databases that hold rows of an earlier sync
InitCurrent ==
    /\ hoy \in { [ano |-> SyncBase.ano, mes |-> SyncBase.mes, dia |-> d] : d \in 1..DiasMes }
    /\ erpStock \in SampleErpStock
    /\ erpDocs \in SampleErpDocs
    /\ producto \in SampleProductos
    /\ ventaHistorica = {}
    /\ ventaActual \in { {} } \cup
         { {ActualRow(q.id, 9, 45, 9)} : q \in producto }
    /\ pedido = {}
    /\ erpProductos = <<>>
    /\ procs = <<>>
    /\ lastOp = NoOp
    /\ pre = NoDb
    /\ pre0 = NoDb
    /\ AuthIdle /\ FnIdle
NextCurrent == SyncCurrentMonthData
SpecCurrent == InitCurrent /\ [][NextCurrent]_vars

\* ---- C28
\* the stock values the snapshot holds for a SKU
SnapshotStocks(sku) ==
    {EntryStock(erpStock[i]) : i \in {j \in 1..Len(erpStock) : EntrySku(erpStock[j]) = sku}}

\* the SKUs with sales between the 1st of the month and the end of yesterday
CurrentSkus == IF hoy.dia > 1 THEN RangeSkus(CurrentDesde, CurrentHasta) ELSE {}

CurrentRowsOf(q) == {r \in ventaActual : r.productoId = q.id}

CurrentRowRight(q) ==
    IF q.sku \in CurrentSkus \/ SnapshotStocks(q.sku) # {}
    THEN /\ Cardinality(CurrentRowsOf(q)) = 1
         /\ \A r \in CurrentRowsOf(q) :
               /\ r.cantidadVendida = IF q.sku \in CurrentSkus
                                      THEN SoldQty(q.sku, CurrentDesde, CurrentHasta) ELSE 0
               /\ r.montoNeto = IF q.sku \in CurrentSkus
                                THEN SoldAmount(q.sku, CurrentDesde, CurrentHasta) ELSE 0
               /\ r.stockActual \in (IF SnapshotStocks(q.sku) = {} THEN {0}
                                     ELSE SnapshotStocks(q.sku))
    ELSE CurrentRowsOf(q) = {}

\* C28: after a successful current-month sync the table holds exactly one row
\* for each known product whose SKU has sales from the 1st of the month to the
\* end of yesterday or appears in the stock snapshot, with the aggregated
\* quantity and amount of that interval (0 with stock only) and the snapshot's
\* stock (0 when absent); no other row, none from before the sync, is left,
\* and on the 1st of the month every quantity is 0.
C28_CurrentMonthRebuilt ==
    SyncRan("syncCurrentMonthData") =>
        /\ \A q \in producto : CurrentRowRight(q)
        /\ \A r \in ventaActual : \E q \in producto : q.id = r.productoId
        /\ hoy.dia = 1 => \A r \in ventaActual : r.cantidadVendida = 0 /\ r.montoNeto = 0

\* a sync on a later day of the month replaced the stale row of one product
\* and created the row of another, both with sales and stock
C28_Witness ==
    /\ SyncRan("syncCurrentMonthData") /\ lastOp.n = 1 /\ hoy.dia > 1
    /\ pre.ventaActual = {ActualRow(2, 9, 45, 9)}
    /\ \E r \in ventaActual : r.productoId = 1 /\ r.cantidadVendida > 0 /\ r.stockActual > 0
    /\ \E r \in ventaActual : r.productoId = 2 /\ r.cantidadVendida = 1 /\ r.stockActual > 0

\* ---- C29
\* C29: a failure for one product inside the rotation loop is counted and the
\* loop goes on: the counts add up to the number of rows read at the start, and
\* all rows but as many as the errors counted have been transferred and reset.
C29_RotationErrorsCounted ==
    lastOp.name = "rotate" /\ pre.ventaActual # {} =>
        /\ lastOp.rotadas + lastOp.errores = Cardinality(pre.ventaActual)
        /\ \E failed \in SUBSET pre.ventaActual :
               /\ Cardinality(failed) = lastOp.errores
               /\ \A r \in pre.ventaActual \ failed : RowRotated(r)

\* the first product of the loop failed and the second was rotated
C29_Witness ==
    /\ lastOp.name = "rotate" /\ lastOp.errores = 1 /\ lastOp.rotadas = 1
    /\ \E r \in pre.ventaActual : r.productoId = 1 /\ r.cantidadVendida # 0 /\ r \in ventaActual
    /\ \E r \in pre.ventaActual : r.productoId = 2 /\ RowRotated(r)

\* ---- C30
\* C30: quantity and amount of every historical and current-month row are
\* never negative, credit notes and returns among the synced documents or not.
C30_NoNegativeTotals ==
    /\ \A h \in ventaHistorica : h.cantidadVendida >= 0 /\ h.montoNeto >= 0
    /\ \A r \in ventaActual : r.cantidadVendida >= 0 /\ r.montoNeto >= 0

\* ---------------------------------------------------------------------------
\* Product sync alone (syncNewProducts of scripts/syncDaily.js), run after run
\* against a catalogue that the ERP may change in between
\* created and updated of a run, counted statement by statement: one create or
\* one update of a row per catalogue entry, or neither
RECURSIVE NewProductsCounts(_, _)
NewProductsCounts(erpProducts, productos) ==
    IF erpProducts = <<>> THEN [created |-> 0, updated |-> 0]
    ELSE LET after == NewProductsLoop(<<Head(erpProducts)>>, productos)
             rest == NewProductsCounts(Tail(erpProducts), after)
             isCreate == Cardinality(after) > Cardinality(productos)
             isUpdate == ~isCreate /\ after # productos
         IN [created |-> rest.created + (IF isCreate THEN 1 ELSE 0),
             updated |-> rest.updated + (IF isUpdate THEN 1 ELSE 0)]

SyncNewProducts ==
    \E catalogOk \in BOOLEAN :
        LET counts == IF catalogOk THEN NewProductsCounts(erpProductos, producto)
                      ELSE [created |-> 0, updated |-> 0]
            again == lastOp.name = "syncNewProducts" /\ lastOp.ok /\ catalogOk
        IN /\ lastOp.n < MaxOps
           /\ SetDb(IF catalogOk THEN syncNewProducts(Db) ELSE Db)
           /\ lastOp' = [name |-> "syncNewProducts", n |-> lastOp.n + 1,
                         rep |-> IF again THEN lastOp.rep + 1 ELSE 1,
                         ok |-> catalogOk, created |-> counts.created,
                         updated |-> counts.updated]
           /\ pre' = Db
           /\ pre0' = IF again THEN pre0 ELSE Db
           /\ UNCHANGED <<authVars, fnVars, hoy, erpDocs, erpStock, erpProductos, procs>>

CatalogSamples ==
    SampleErpProductos \cup
    { <<CatalogEntry("A", "Producto A", "", "F2")>>,
      <<CatalogEntry("A", "Producto A", "", ""), CatalogEntry("A", "Otro nombre", "", "")>> }

\* the ERP catalogue is edited
CatalogChanges ==
    /\ \E c \in CatalogSamples : c # erpProductos /\ erpProductos' = c
    /\ Record([name |-> "catalogChanges", n |-> 0, rep |-> 0])
    /\ UNCHANGED <<hoy, producto, ventaHistorica, ventaActual, pedido, erpDocs, erpStock,
                   procs>>

InitProducts ==
    /\ hoy = DashHoy
    /\ producto \in { {}, {ProductoRow(1, "A", "Producto A")},
                      {ProductoRow(1, "C", "Producto C"), ProductoRow(2, "A", "Nombre viejo")},
                      {ProductoRow(1, "B", "Producto B"), ProductoRow(2, "C", "Producto C")} }
    /\ erpProductos \in CatalogSamples
    /\ ventaHistorica = {} /\ ventaActual = {} /\ pedido = {}
    /\ erpDocs = <<>> /\ erpStock = <<>>
    /\ procs = <<>>
    /\ lastOp = NoOp
    /\ pre = NoDb
    /\ pre0 = NoDb
    /\ AuthIdle /\ FnIdle
NextProducts == SyncNewProducts \/ CatalogChanges
SpecProducts == InitProducts /\ [][NextProducts]_vars

\* ---- C31
CatalogSkus == {erpProductos[i].codigo_prod : i \in 1..Len(erpProductos)} \ {""}

\* what the catalogue says of a SKU: description (nombre, else descripcion) and family
CatalogData(sku) ==
    {[descripcion |-> IF erpProductos[i].nombre # "" THEN erpProductos[i].nombre
                      ELSE erpProductos[i].descripcion,
      familia |-> erpProductos[i].familia] :
        i \in {j \in 1..Len(erpProductos) : erpProductos[j].codigo_prod = sku}}

\* no SKU is listed twice with different data
CatalogUnambiguous == \A sku \in CatalogSkus : Cardinality(CatalogData(sku)) = 1

ProductsRan == lastOp.name = "syncNewProducts" /\ lastOp.ok

ProductsSynced ==
    /\ \A sku \in CatalogSkus :
           /\ Cardinality({q \in producto : q.sku = sku}) = 1
           /\ \A q \in producto : q.sku = sku =>
                  [descripcion |-> q.descripcion, familia |-> q.familia] \in CatalogData(sku)
    /\ \A q \in pre.producto :
           /\ \E q2 \in producto : q2.id = q.id /\ q2.sku = q.sku
           /\ q.sku \notin CatalogSkus => q \in producto
           /\ [descripcion |-> q.descripcion, familia |-> q.familia] \in CatalogData(q.sku)
                  /\ Cardinality(CatalogData(q.sku)) = 1 => q \in producto
    /\ \A q \in producto : q \notin pre.producto => q.sku \in CatalogSkus
    /\ lastOp.created = Cardinality(producto) - Cardinality(pre.producto)

\* C31 (as the code has it): product sync creates a product for every catalogue
\* entry with a non-empty SKU that is absent locally, updates description and
\* family of an existing product only when they differ, and never deletes or
\* alters a product absent from the catalogue; run twice against the same
\* catalogue, in which no SKU is listed twice with different data, the second
\* run creates and updates nothing.
C31_ProductSync ==
    ProductsRan =>
        /\ ProductsSynced
        /\ lastOp.rep = 2 /\ CatalogUnambiguous =>
               lastOp.created = 0 /\ lastOp.updated = 0 /\ producto = pre.producto

\* C31 as stated: the second of two runs against the same catalogue creates
\* and updates nothing.
C31_SecondRunDoesNothing ==
    ProductsRan /\ lastOp.rep = 2 => lastOp.created = 0 /\ lastOp.updated = 0

\* a second run did nothing after a first that created a product and updated
\* another, a product absent from the catalogue being on file
C31_Witness ==
    /\ ProductsRan /\ lastOp.rep = 2 /\ CatalogUnambiguous
    /\ lastOp.created = 0 /\ lastOp.updated = 0
    /\ Cardinality(pre0.producto) = 2 /\ Cardinality(producto) = 3
    /\ \E q \in pre0.producto : q.sku = "A" /\ q \notin producto
    /\ \E q \in producto : q.sku = "C"

\* ---------------------------------------------------------------------------
\* The two loops that fetch document details in groups:
\* processFAVEsSequentially (scripts/syncVentasActuales.js) and
\* processFAVEsInBatches (scripts/syncVentas.js), one statement per step.
\* Documents are numbered 1..n; inflight holds the processFAVE calls that
\* have started and not settled.
MaxFaves == 5
MaxConcurrency == 2
MaxBatchSize == 4

Min(a, b) == IF a < b THEN a ELSE b

BatchCall(fn, n, batchSize, concurrency) ==
    [pc |-> "loop", fn |-> fn, n |-> n, batchSize |-> batchSize,
     concurrency |-> concurrency, i |-> 0, j |-> 0, inflight |-> {},
     grupo |-> {}, limpio |-> TRUE, resultados |-> 0]

\* faves.slice(from, from + size) of a list of upTo documents, as positions
Slice(from, size, upTo) == (from + 1)..Min(from + size, upTo)

\* for (let i = 0; ...; i += concurrency): batch.map(processSingleFAVE), every
\* call of the group starting at once; limpio records whether nothing was in
\* flight when the group started
SeqSpawn ==
    /\ procs[1].fn = "sequentially" /\ procs[1].pc = "loop"
    /\ procs[1].i < procs[1].n
    /\ LET g == Slice(procs[1].i, procs[1].concurrency, procs[1].n)
       IN procs' = <<[procs[1] EXCEPT !.pc = "await", !.grupo = g,
                                      !.limpio = (procs[1].inflight = {}),
                                      !.inflight = @ \cup g]>>
    /\ HistStepUnchanged /\ UNCHANGED <<producto, ventaHistorica>>

\* one processFAVE call settles; it never rejects, whatever the request brings
FetchSettles ==
    /\ procs[1].pc = "await"
    /\ \E k \in procs[1].inflight :
          procs' = <<[procs[1] EXCEPT !.inflight = @ \ {k}]>>
    /\ HistStepUnchanged /\ UNCHANGED <<producto, ventaHistorica>>

\* await Promise.all(batchPromises) resumes, results are pushed, and the
\* 200 ms pause is taken when documents remain
SeqJoin ==
    /\ procs[1].fn = "sequentially" /\ procs[1].pc = "await"
    /\ procs[1].inflight = {}
    /\ procs' = <<[procs[1] EXCEPT
                      !.resultados = @ + Cardinality(procs[1].grupo),
                      !.pc = IF procs[1].i + procs[1].concurrency < procs[1].n
                             THEN "sleep" ELSE "loop",
                      !.i = IF procs[1].i + procs[1].concurrency < procs[1].n
                            THEN @ ELSE @ + procs[1].concurrency]>>
    /\ HistStepUnchanged /\ UNCHANGED <<producto, ventaHistorica>>

SeqSleep ==
    /\ procs[1].pc = "sleep"
    /\ procs' = <<[procs[1] EXCEPT !.pc = "loop", !.i = @ + procs[1].concurrency]>>
    /\ HistStepUnchanged /\ UNCHANGED <<producto, ventaHistorica>>

\* the inner loop of processFAVEsInBatches: one group of the batch is mapped
\* to processFAVE calls and wrapped in Promise.allSettled, without awaiting
BatSpawn ==
    /\ procs[1].fn = "batches" /\ procs[1].pc \in {"loop", "spawn"}
    /\ procs[1].i < procs[1].n
    /\ LET batch == Slice(procs[1].i, procs[1].batchSize, procs[1].n)
           first == IF procs[1].pc = "loop" THEN 0 ELSE procs[1].j
           g == {k \in batch : /\ k > procs[1].i + first
                               /\ k <= procs[1].i + first + procs[1].concurrency}
       IN procs' = <<[procs[1] EXCEPT
                         !.grupo = g, !.limpio = (procs[1].inflight = {}),
                         !.inflight = @ \cup g,
                         !.j = first + procs[1].concurrency,
                         !.pc = IF first + procs[1].concurrency < Cardinality(batch)
                                THEN "spawn" ELSE "await"]>>
    /\ HistStepUnchanged /\ UNCHANGED <<producto, ventaHistorica>>

\* await Promise.all(batchPromises) resumes; results are flattened and counted
BatJoin ==
    /\ procs[1].fn = "batches" /\ procs[1].pc = "await"
    /\ procs[1].inflight = {}
    /\ procs' = <<[procs[1] EXCEPT
                      !.resultados = @ + Cardinality(Slice(procs[1].i, procs[1].batchSize,
                                                           procs[1].n)),
                      !.pc = "loop", !.i = @ + procs[1].batchSize]>>
    /\ HistStepUnchanged /\ UNCHANGED <<producto, ventaHistorica>>

\* the outer loop ends and the results are returned
BatchReturn ==
    /\ procs[1].pc = "loop" /\ procs[1].i >= procs[1].n
    /\ procs' = <<[procs[1] EXCEPT !.pc = "done"]>>
    /\ HistStepUnchanged /\ UNCHANGED <<producto, ventaHistorica>>

InitBatch ==
    /\ \E n \in 0..MaxFaves, concurrency \in 1..MaxConcurrency,
          batchSize \in 1..MaxBatchSize, fn \in {"sequentially", "batches"} :
          /\ fn = "sequentially" => batchSize = concurrency
          /\ procs = <<BatchCall(fn, n, batchSize, concurrency)>>
    /\ hoy = [ano |-> 0, mes |-> 1, dia |-> 1]
    /\ producto = {} /\ ventaHistorica = {} /\ ventaActual = {} /\ pedido = {}
    /\ erpDocs = <<>> /\ erpStock = <<>> /\ erpProductos = <<>>
    /\ lastOp = NoOp /\ pre = NoDb /\ pre0 = NoDb
    /\ AuthIdle /\ FnIdle

NextBatch == SeqSpawn \/ FetchSettles \/ SeqJoin \/ SeqSleep \/ BatSpawn \/ BatJoin
                \/ BatchReturn
SpecBatch == InitBatch /\ [][NextBatch]_vars

\* ---- C32
\* C32: at any moment at most `concurrency` detail fetches are in flight, in
\* processFAVEsSequentially and in processFAVEsInBatches alike, and a group of
\* fetches starts only after every fetch of the previous group has settled.
C32_BoundedFetches ==
    /\ Cardinality(procs[1].inflight) <= procs[1].concurrency
    /\ procs[1].limpio

\* the part of C32 that holds: processFAVEsSequentially keeps to its limit
C32_SequentialBounded ==
    procs[1].fn = "sequentially" =>
        /\ Cardinality(procs[1].inflight) <= procs[1].concurrency
        /\ procs[1].limpio
        /\ procs[1].pc = "done" => procs[1].resultados = procs[1].n

\* ---------------------------------------------------------------------------
\* Stock refresh of one product: actualizarStockProducto (scripts/syncStock)
\* and saveStockToDatabase (services/stockService).
\* A stock argument is a number or something parseFloat makes NaN of.
StockArg(numeric, value) == [numeric |-> numeric, value |-> value]

\* a row upsert that writes the whole row on either path
VentaActualUpsert_ResetsSales(va, productoId, stockNum) ==
    {a \in va : a.productoId # productoId} \cup {ActualRow(productoId, 0, 0, stockNum)}

\* prisma.ventaActual.upsert({where: {productoId}, update: {stockActual},
\* create: {productoId, stockActual, cantidadVendida: 0, montoNeto: 0}})
VentaActualUpsert(va, productoId, stockNum) ==
    IF \E a \in va : a.productoId = productoId
    THEN {IF a.productoId = productoId THEN [a EXCEPT !.stockActual = stockNum] ELSE a :
              a \in va}
    ELSE va \cup {ActualRow(productoId, 0, 0, stockNum)}

\* actualizarStockProducto(productoId, stockActual): the upsert throws for a
\* productoId without product (foreign key), for NaN, or when the database
\* fails; the catch returns false
actualizarStockProducto(db, productoId, stockActual, dbOk) ==
    IF dbOk /\ stockActual.numeric /\ (\E q \in db.producto : q.id = productoId)
    THEN [db |-> [db EXCEPT !.ventaActual =
                      VentaActualUpsert(@, productoId, stockActual.value)],
          ok |-> TRUE]
    ELSE [db |-> db, ok |-> FALSE]

\* saveStockToDatabase(sku, stock, nombre): product upsert, then row upsert,
\* not in a transaction; falla names the statement that throws, if any
saveStockToDatabase(db, sku, stock, nombre, falla) ==
    LET stockNum == IF stock.numeric THEN stock.value ELSE 0
        trimmedSku == Trim(sku)
        existing == FindBySku(db.producto, trimmedSku)
        productos ==
            IF existing = {}
            THEN db.producto \cup {[id |-> NextId(db.producto), sku |-> trimmedSku,
                                    descripcion |-> OrS(nombre, trimmedSku),
                                    familia |-> ""]}
            ELSE {IF q \in existing /\ nombre # "" THEN [q EXCEPT !.descripcion = nombre]
                  ELSE q : q \in db.producto}
        prod == CHOOSE q \in productos : q.sku = trimmedSku
    IN CASE falla = "producto" -> [db |-> db, ok |-> FALSE]
         [] falla = "ventaActual" -> [db |-> [db EXCEPT !.producto = productos], ok |-> FALSE]
         [] OTHER -> [db |-> [db EXCEPT !.producto = productos,
                                        !.ventaActual =
                                            VentaActualUpsert(@, prod.id, stockNum)],
                      ok |-> TRUE]

StockArgs == {StockArg(TRUE, 0), StockArg(TRUE, 7), StockArg(FALSE, 0)}

ActualizarStockProducto ==
    \E productoId \in 1..3, stock \in StockArgs, dbOk \in BOOLEAN :
        LET r == actualizarStockProducto(Db, productoId, stock, dbOk)
        IN /\ SetDb(r.db)
           /\ Record([name |-> "actualizarStockProducto", n |-> 0, rep |-> 0,
                      productoId |-> productoId, stock |-> stock, ok |-> r.ok])
           /\ UNCHANGED <<hoy, erpDocs, erpStock, erpProductos, procs>>

SaveStockToDatabase ==
    \E sku \in {"A", " A", "C"}, stock \in StockArgs,
       nombre \in {"", "Nuevo"}, falla \in {"none", "producto", "ventaActual"} :
        LET r == saveStockToDatabase(Db, sku, stock, nombre, falla)
            ids == {q.id : q \in FindBySku(r.db.producto, Trim(sku))}
        IN /\ SetDb(r.db)
           /\ Record([name |-> "saveStockToDatabase", n |-> 0, rep |-> 0,
                      productoId |-> IF ids = {} THEN 0 ELSE CHOOSE i \in ids : TRUE,
                      stock |-> stock, ok |-> r.ok])
           /\ UNCHANGED <<hoy, erpDocs, erpStock, erpProductos, procs>>

InitStockRefresh ==
    /\ hoy = DashHoy
    /\ producto \in { {ProductoRow(1, "A", "Producto A")},
                      {ProductoRow(1, "A", "Producto A"), ProductoRow(2, "B", "Producto B")} }
    /\ ventaActual \in { {}, {ActualRow(1, 3, 30, 5)},
                         {ActualRow(1, 3, 30, 5), ActualRow(2, 2, 25, 8)} }
    /\ \A a \in ventaActual : \E q \in producto : q.id = a.productoId
    /\ ventaHistorica = {} /\ pedido = {}
    /\ erpDocs = <<>> /\ erpStock = <<>> /\ erpProductos = <<>>
    /\ procs = <<>>
    /\ lastOp = NoOp /\ pre = NoDb /\ pre0 = NoDb
    /\ AuthIdle /\ FnIdle
NextStockRefresh == ActualizarStockProducto \/ SaveStockToDatabase
SpecStockRefresh == InitStockRefresh /\ [][NextStockRefresh]_vars

\* ---- C33
StockRan == lastOp.name \in {"actualizarStockProducto", "saveStockToDatabase"}

StockValue == IF lastOp.stock.numeric THEN lastOp.stock.value ELSE 0

\* C33: refreshing a product's stock changes only stockActual of that
\* product's current-month row, leaving cantidadVendida and montoNeto as they
\* were; when the product has no row it creates one with zero sales; it never
\* creates a second row for the product, and no other row changes.
C33_StockRefreshFrame ==
    StockRan =>
        /\ \A a \in pre.ventaActual :
               /\ a.productoId # lastOp.productoId => a \in ventaActual
               /\ \E b \in ventaActual :
                      /\ b.productoId = a.productoId
                      /\ b.cantidadVendida = a.cantidadVendida
                      /\ b.montoNeto = a.montoNeto
        /\ \A b \in ventaActual :
               /\ Cardinality(RowsOf(ventaActual, b.productoId)) = 1
               /\ RowsOf(pre.ventaActual, b.productoId) = {} =>
                      /\ b.productoId = lastOp.productoId
                      /\ b = ActualRow(b.productoId, 0, 0, StockValue)
        /\ lastOp.ok =>
               \E b \in ventaActual :
                   b.productoId = lastOp.productoId /\ b.stockActual = StockValue
        /\ ~lastOp.ok => ventaActual = pre.ventaActual

\* a refresh changed the stock of a row that carries sales
C33_Witness ==
    /\ StockRan /\ lastOp.ok /\ lastOp.productoId = 1
    /\ ActualRow(1, 3, 30, 5) \in pre.ventaActual
    /\ ActualRow(1, 3, 30, 7) \in ventaActual

\* a refresh created the zero-sales row of a product that had none
C33_WitnessCreate ==
    /\ lastOp.name = "saveStockToDatabase" /\ lastOp.ok
    /\ RowsOf(pre.ventaActual, lastOp.productoId) = {}
    /\ ActualRow(lastOp.productoId, 0, 0, 7) \in ventaActual

\* ---------------------------------------------------------------------------
\* The intended schedule: every day the cron run of syncYesterday, once, and
\* at a start of the server verificarRotacionInicial, which rotates when
\* necesitaRotacion answers true.  No request and no statement fails.
MaxMonths == 2

AllOk == [p \in {r.productoId : r \in ventaActual} |-> "ok"]

SchedState(inicio, synced) == [inicio |-> inicio, synced |-> synced]

\* the cron job of the day: syncYesterday()
SchedCron ==
    /\ ~procs[1].synced
    /\ SetDb(syncCurrentMonthData(syncDaySales(syncNewProducts(Db), Yesterday, {}), {}, TRUE))
    /\ procs' = <<[procs[1] EXCEPT !.synced = TRUE]>>
    /\ lastOp' = [name |-> "syncYesterday", n |-> 1, rep |-> 1]
    /\ pre' = Db
    /\ UNCHANGED <<authVars, fnVars, hoy, erpDocs, erpStock, erpProductos, pre0>>

\* the server starts: verificarRotacionInicial()
SchedServerStart ==
    /\ necesitaRotacion(ventaHistorica, getMesActual, FALSE)
    /\ SetDb(limpiarDatosAntiguos(
                 rotarVentasActualesAHistoricas(Db, getMesActual, AllOk).db, getMesActual))
    /\ lastOp' = [name |-> "verificarRotacionInicial", n |-> 1, rep |-> 1]
    /\ pre' = Db
    /\ UNCHANGED <<authVars, fnVars, hoy, erpDocs, erpStock, erpProductos, procs, pre0>>

\* midnight, the day's cron run having taken place
SchedMidnight ==
    /\ procs[1].synced
    /\ MonthIndex(hoy.ano, hoy.mes) < MonthIndex(SyncBase.ano, SyncBase.mes) + MaxMonths
    /\ hoy' = IF hoy.dia < DiasMes THEN [hoy EXCEPT !.dia = @ + 1]
              ELSE LET ym == FromMonthIndex(MonthIndex(hoy.ano, hoy.mes) + 1)
                   IN [ano |-> ym.ano, mes |-> ym.mes, dia |-> 1]
    /\ procs' = <<[procs[1] EXCEPT !.synced = FALSE]>>
    /\ lastOp' = [name |-> "midnight", n |-> 1, rep |-> 1]
    /\ pre' = Db
    /\ UNCHANGED <<authVars, fnVars, producto, ventaHistorica, ventaActual, pedido,
                   erpDocs, erpStock, erpProductos, pre0>>

\* a fresh installation, on any day of the first month
InitSched ==
    /\ hoy \in { [ano |-> SyncBase.ano, mes |-> SyncBase.mes, dia |-> d] : d \in 1..DiasMes }
    /\ erpDocs \in SampleErpDocs
    /\ erpStock \in SampleErpStock
    /\ erpProductos \in SampleErpProductos
    /\ procs = <<SchedState(hoy, FALSE)>>
    /\ producto = {} /\ ventaHistorica = {} /\ ventaActual = {} /\ pedido = {}
    /\ lastOp = NoOp /\ pre = NoDb /\ pre0 = NoDb
    /\ AuthIdle /\ FnIdle
NextSched == SchedCron \/ SchedServerStart \/ SchedMidnight
SpecSched == InitSched /\ [][NextSched]_vars

\* ---- C34
\* the sum of the quantities of a SKU in the ERP documents dated within a month
ErpMonthTotal(sku, ano, mes) ==
    LET map == aggregateSalesByProduct(
                   getAllSales(FirstDay(ano, mes), LastDay(ano, mes), {}))
    IN IF MapHas(map, sku) THEN map[MapIndex(map, sku)].cantidad ELSE 0

HistoricalTotal(productoId, ano, mes) ==
    LET rows == {h \in ventaHistorica : SameKey(h, productoId, ano, mes)}
    IN IF rows = {} THEN 0 ELSE (CHOOSE h \in rows : TRUE).cantidadVendida

\* the months the schedule has covered from their first day to their last
CompletedMonths ==
    {i \in MonthIndex(SyncBase.ano, SyncBase.mes)..(MonthIndex(hoy.ano, hoy.mes) - 1) :
        /\ procs[1].synced
        /\ i > MonthIndex(procs[1].inicio.ano, procs[1].inicio.mes) \/ procs[1].inicio.dia = 1}

\* C34: under the intended schedule, for every completed calendar month m and
\* product p the historical quantity of (p, m) equals the sum of p's
\* quantities in the ERP documents dated within m.
C34_CompletedMonthTotals ==
    \A i \in CompletedMonths, q \in producto :
        HistoricalTotal(q.id, FromMonthIndex(i).ano, FromMonthIndex(i).mes)
            = ErpMonthTotal(q.sku, FromMonthIndex(i).ano, FromMonthIndex(i).mes)

\* ---------------------------------------------------------------------------
\* Dashboard reads between current-month syncs, manual syncs from the stream
\* and midnights: what the persisted quantity and the live query cover
DocT == ErpDoc("FAVE", LastDay(SyncBase.ano, SyncBase.mes), <<Line("codigo", "A", 4, 5)>>)
LiveErpDocs == { <<DocA, DocB, DocT>>, <<DocA, DocN, DocP, DocT>>, <<DocT>>, <<DocB>> }

InitLive ==
    /\ hoy \in { [ano |-> SyncBase.ano, mes |-> SyncBase.mes, dia |-> d] : d \in 1..DiasMes }
    /\ erpDocs \in LiveErpDocs
    /\ erpStock = <<StockAGeneral, StockB>>
    /\ erpProductos \in SampleErpProductos
    /\ procs = <<>>
    /\ producto = DashProductos
    /\ ventaHistorica = {}
    /\ ventaActual \in { {}, {ActualRow(1, 3, 15, 5)} }
    /\ pedido = {}
    /\ lastOp = NoOp /\ pre = NoDb /\ pre0 = NoDb
    /\ AuthIdle /\ FnIdle
\* GET /api/dashboard with the default window and no brand filter; the live
\* query answers for every kind of document or fails for one.  leido keeps
\* the day of the request and the rows it read.
DashboardLive ==
    \E falla \in { {}, {"FAVE"} } :
        /\ fnOut' = getDashboard(3, "", falla)
                        @@ [leido |-> [hoy |-> hoy, ventaActual |-> ventaActual]]
        /\ UNCHANGED <<fnIn, authVars, dbVars>>
NextLive == SyncCurrentMonthData \/ SyncStream \/ DashboardLive \/ NextDay
SpecLive == InitLive /\ [][NextLive]_vars

\* ---- C35
\* the sum of the quantities of a SKU in the ERP documents dated desde..hasta
ErpTotal(sku, desde, hasta) ==
    LET map == aggregateSalesByProduct(getAllSales(desde, hasta, {}))
    IN IF MapHas(map, sku) THEN map[MapIndex(map, sku)].cantidad ELSE 0

PersistedQty(va, productoId) ==
    LET rows == RowsOf(va, productoId)
    IN IF rows = {} THEN 0 ELSE (CHOOSE v \in rows : TRUE).cantidadVendida

\* the stored quantities are the sales of the 1st through the end of the day
\* before `dia`
PersistedThroughYesterday(va, dia) ==
    \A q \in producto :
        PersistedQty(va, q.id) = ErpTotal(q.sku, FirstDay(dia.ano, dia.mes),
                                          [dia EXCEPT !.dia = @ - 1])

\* the last operation is a current-month sync of today in which no request failed
SyncedToday == lastOp.name = "syncCurrentMonthData" /\ lastOp.ok /\ lastOp.completo

\* a dashboard request has been answered, the live query having succeeded
DashboardServed ==
    fnOut.name = "getDashboard" /\ fnOut.status = 200 /\ fnOut.completo

\* every row served carries the month's sales to date, each counted once
ServedMonthToDate ==
    \A i \in 1..Len(fnOut.rows) :
        fnOut.rows[i].mesActual.ventaActual
            = ErpTotal(fnOut.rows[i].producto.sku,
                       FirstDay(fnOut.leido.hoy.ano, fnOut.leido.hoy.mes), fnOut.leido.hoy)

StreamRuns == fnOut' # fnOut /\ fnOut'.name = "syncStream"

MaxRangeDays == 800

Instant(dia, hora) == [dia |-> dia, hora |-> hora]
\* a < b on Dates
InstantBefore(a, b) == a.dia < b.dia \/ (a.dia = b.dia /\ a.hora < b.hora)
\* addDays of date-fns: the same hour, n days later
AddDays(d, n) == [d EXCEPT !.dia = @ + n]
\* Math.ceil((fechaFin.getTime() - fechaInicio.getTime()) / (1000 * 60 * 60 * 24))
DiffDays(fechaInicio, fechaFin) ==
    (fechaFin.dia - fechaInicio.dia) + (IF fechaFin.hora > fechaInicio.hora THEN 1 ELSE 0)
\* the df and dt of one getFAVEs request: format(date, 'yyyyMMdd')
Consulta(desde, hasta) == [df |-> desde.dia, dt |-> hasta.dia]

\* while (fechaActual < fechaFin)
PeriodsRemain(fechaActual, fechaFin) == InstantBefore(fechaActual, fechaFin)

\* the call, up to the choice between one request and the loop
FavesStart ==
    /\ procs[1].pc = "start"
    /\ IF DiffDays(procs[1].fechaInicio, procs[1].fechaFin) <= 365
       THEN \E ok \in BOOLEAN :
               procs' = <<IF ok
                          THEN [procs[1] EXCEPT
                                   !.pc = "done",
                                   !.consultas = <<Consulta(procs[1].fechaInicio,
                                                            procs[1].fechaFin)>>]
                          ELSE [procs[1] EXCEPT !.pc = "raise"]>>
       ELSE procs' = <<[procs[1] EXCEPT !.pc = "loop"]>>
    /\ HistStepUnchanged /\ UNCHANGED <<producto, ventaHistorica>>

\* one iteration: the period of at most 365 days, its request, the next start;
\* a request that throws ends the call
FavesPeriod ==
    /\ procs[1].pc = "loop"
    /\ PeriodsRemain(procs[1].fechaActual, procs[1].fechaFin)
    /\ LET plus364 == AddDays(procs[1].fechaActual, 364)
           fechaFinPeriodo == IF InstantBefore(procs[1].fechaFin, plus364)
                              THEN procs[1].fechaFin ELSE plus364
       IN \E ok \in BOOLEAN :
              procs' = <<IF ok
                         THEN [procs[1] EXCEPT
                                  !.consultas = Append(@, Consulta(procs[1].fechaActual,
                                                                   fechaFinPeriodo)),
                                  !.fechaActual = AddDays(fechaFinPeriodo, 1)]
                         ELSE [procs[1] EXCEPT !.pc = "raise"]>>
    /\ HistStepUnchanged /\ UNCHANGED <<producto, ventaHistorica>>

\* the loop test fails: return todasLasFAVEs
FavesReturn ==
    /\ procs[1].pc = "loop"
    /\ ~PeriodsRemain(procs[1].fechaActual, procs[1].fechaFin)
    /\ procs' = <<[procs[1] EXCEPT !.pc = "done"]>>
    /\ HistStepUnchanged /\ UNCHANGED <<producto, ventaHistorica>>

InitFaves ==
    /\ \E h1 \in 0..1, h2 \in 0..1, d \in 0..MaxRangeDays :
          procs = <<[pc |-> "start", fechaInicio |-> Instant(0, h1),
                     fechaFin |-> Instant(d, h2), fechaActual |-> Instant(0, h1),
                     consultas |-> <<>>]>>
    /\ hoy = [ano |-> 0, mes |-> 1, dia |-> 1]
    /\ producto = {} /\ ventaHistorica = {} /\ ventaActual = {} /\ pedido = {}
    /\ erpDocs = <<>> /\ erpStock = <<>> /\ erpProductos = <<>>
    /\ lastOp = NoOp /\ pre = NoDb /\ pre0 = NoDb
    /\ AuthIdle /\ FnIdle
NextFaves == FavesStart \/ FavesPeriod \/ FavesReturn
SpecFaves == InitFaves /\ [][NextFaves]_vars
\* every awaited request settles
SpecFavesFair == SpecFaves /\ WF_vars(NextFaves)

\* ---- C36
FavesLong == DiffDays(procs[1].fechaInicio, procs[1].fechaFin) > 365

\* the requests made are consecutive, disjoint, of at most 365 days each
ConsultasConsecutive ==
    LET c == procs[1].consultas
    IN /\ \A k \in 1..Len(c) : c[k].df <= c[k].dt /\ c[k].dt - c[k].df + 1 <= 365
       /\ \A k \in 1..(Len(c) - 1) : c[k + 1].df = c[k].dt + 1
       /\ c # <<>> => c[1].df = procs[1].fechaInicio.dia

C36_SplitTerminates ==
    /\ [](FavesLong => ConsultasConsecutive)
    /\ <>(procs[1].pc \in {"done", "raise"})

\* ---------------------------------------------------------------------------
\* Two single-day sync runs of the same day that overlap, statement by
\* statement; pre keeps the database as it was before either started.
\* getDailySales(date) of a run of syncDaySales, every request answering
DayFetch ==
    \E i \in Runs :
        LET dia == FirstDay(SyncBase.ano, SyncBase.mes)
            sales == aggregateSalesByProduct(getAllSales(dia, dia, {}))
        IN /\ procs[i].pc = "idle"
           /\ procs' = [procs EXCEPT ![i] =
                           NextEntry([@ EXCEPT !.op = "syncDaySales", !.year = dia.ano,
                                               !.month = dia.mes], sales)]
           /\ UNCHANGED <<producto, ventaHistorica>>
           /\ HistStepUnchanged

InitDayRuns ==
    /\ hoy = LastDay(SyncBase.ano, SyncBase.mes)
    /\ producto \in { {}, {ProductoRow(1, "A", "Producto A")},
                      {ProductoRow(1, "A", "Producto A"), ProductoRow(2, "B", "Producto B")} }
    /\ ventaHistorica \in { {} } \cup
         { {[productoId |-> 1, ano |-> SyncBase.ano, mes |-> SyncBase.mes,
             cantidadVendida |-> 10, montoNeto |-> 50]} : x \in producto }
    /\ ventaActual = {}
    /\ pedido = {}
    /\ erpDocs \in { <<DocA, DocN, DocP>>, <<DocA>>, <<DocA, DocB>> }
    /\ erpStock = <<>>
    /\ erpProductos = <<>>
    /\ procs = [i \in Runs |-> HistIdle]
    /\ lastOp = NoOp
    /\ pre = Db
    /\ pre0 = NoDb
    /\ AuthIdle /\ FnIdle
NextDayRuns ==
    DayFetch \/ HistFindProducto \/ HistCreateProducto \/ HistFindVenta \/ HistWrite
SpecDayRuns == InitDayRuns /\ [][NextDayRuns]_vars

\* ---- C37
DayRunsEnded == \A i \in Runs : procs[i].pc \in {"done", "failed"}

\* the quantity of a SKU stored for the month of the runs, in a table
StoredTotal(vh, productos, sku) ==
    LET rows == {h \in vh : /\ h.ano = SyncBase.ano /\ h.mes = SyncBase.mes
                            /\ \E q \in productos : q.sku = sku /\ q.id = h.productoId}
    IN IF rows = {} THEN 0 ELSE (CHOOSE h \in rows : TRUE).cantidadVendida

DaySkus ==
    LET sales == aggregateSalesByProduct(
                     getAllSales(FirstDay(SyncBase.ano, SyncBase.mes),
                                 FirstDay(SyncBase.ano, SyncBase.mes), {}))
    IN {sales[k].sku : k \in 1..Len(sales)}

\* C37: two overlapping single-day sync runs of the same day end, whatever the
\* interleaving, with each SKU's historical total equal to prior + 2q, and no
\* run is aborted by a uniqueness violation.
C37_NoLostUpdate ==
    DayRunsEnded =>
        /\ \A i \in Runs : procs[i].pc = "done"
        /\ \A sku \in DaySkus :
               StoredTotal(ventaHistorica, producto, sku)
                   = StoredTotal(pre.ventaHistorica, pre.producto, sku)
                     + NumRuns * ErpTotal(sku, FirstDay(SyncBase.ano, SyncBase.mes),
                                          FirstDay(SyncBase.ano, SyncBase.mes))

\* what does hold: a total never exceeds prior + 2q, and a run fails only on
\* a uniqueness violation of a create
C37_AtMostTwice ==
    DayRunsEnded =>
        \A sku \in DaySkus :
            LET q == ErpTotal(sku, FirstDay(SyncBase.ano, SyncBase.mes),
                              FirstDay(SyncBase.ano, SyncBase.mes))
                d == StoredTotal(ventaHistorica, producto, sku)
                         - StoredTotal(pre.ventaHistorica, pre.producto, sku)
            IN d \in {0, q, NumRuns * q}

\* ---- C38
\* both runs have ended, each having been answered the same sales and stock
CurrentRunsEnded ==
    \A i \in Runs :
        /\ procs[i].pc \in {"done", "failed"}
        /\ procs[i].stockMap = getCurrentStock(erpStock)
        /\ procs[i].monthlySales =
               IF hoy.dia > 1
               THEN aggregateSalesByProduct(getAllSales(CurrentDesde, CurrentHasta, {}))
               ELSE <<>>

\* C38: two overlapping current-month sync runs over the same ERP data end,
\* whatever the interleaving, with both runs completed and the table equal
\* to the result of a single run.
C38_OverlapEqualsSingleRun ==
    CurrentRunsEnded =>
        /\ \A i \in Runs : procs[i].pc = "done"
        /\ ventaActual = syncCurrentMonthData(Db, {}, TRUE).ventaActual

\* what does hold: when both runs complete the table is that of a single run
C38_CompletedRunsAgree ==
    CurrentRunsEnded /\ (\A i \in Runs : procs[i].pc = "done") =>
        ventaActual = syncCurrentMonthData(Db, {}, TRUE).ventaActual

====
